---- MODULE Spec2Model ----
(***************************************************************************)
(* roottest: a harness that runs a fixture's command in an isolated root   *)
(* and compares exit status, stdout, stderr and the resulting directory    *)
(* tree with the recorded expectations.                                    *)
(*                                                                         *)
(* The model follows src/main.rs (the run loop and the exit code),         *)
(* src/tests.rs (RootTest::from_dir and RootTest::run) and src/results.rs  *)
(* (RootTestResult, FileNode, Counts).                                     *)
(***************************************************************************)
EXTENDS Integers, Sequences, FiniteSets, TLC

VARIABLES
    opt,             \* args.rs Opt: cleanup, include_ignored, quiet
    test_dirs,       \* main.rs run: the test directories, in input order
    disk,            \* the file system: one entry per test directory
    tests,           \* main.rs run: the loaded RootTest values
    pc,              \* position in main.rs run / tests.rs RootTest::run
    idx,             \* main.rs run: index of the fixture of the `for test in tests` loop
    counts,          \* main.rs run: results::Counts
    fails,           \* main.rs run: Vec of (test.name, result)
    process_output,  \* tests.rs run: the captured std::process::Output
    cmp,             \* results.rs new: the locals status, stdout, stderr, root and the two loaded nodes
    result,          \* tests.rs run: the local `result`
    ret,             \* the value RootTest::run returned (Ok(result) / Err(context))
    exit_code,       \* the code the process ended with
    events,          \* what the process did, in order (side effects and printed lines)
    diff_crate,      \* the release of the `diff` dependency the build links
    actual_node,     \* difference.rs from_file_nodes: the argument `actual`
    expected_node,   \* difference.rs from_file_nodes: the argument `expected`
    node_diff,       \* difference.rs from_file_nodes: the value returned
    diff,            \* difference.rs hunkify_diff: the argument `diff`
    extra_lines,     \* difference.rs hunkify_diff: the argument `extra_lines`
    position,        \* difference.rs hunkify_diff: the loop's position (1-based here)
    left_line_number,   \* difference.rs hunkify_diff: the local of that name
    right_line_number,  \* difference.rs hunkify_diff: the local of that name
    current_hunk,    \* difference.rs hunkify_diff: the local of that name
    hunks,           \* difference.rs hunkify_diff: the local of that name
    output           \* results.rs output_diff: the argument `output`

\* The state of a run of the harness, its position apart
run_vars == <<opt, test_dirs, disk, tests, idx, counts, fails, process_output,
              cmp, result, ret, exit_code, events>>

\* The state of one call of from_file_nodes
differ_vars == <<actual_node, expected_node, node_diff>>

\* The state of one call of hunkify_diff
hunk_vars == <<diff, extra_lines, position, left_line_number, right_line_number,
               current_hunk, hunks>>

vars == <<opt, test_dirs, disk, tests, pc, idx, counts, fails, process_output,
          cmp, result, ret, exit_code, events, diff_crate, actual_node,
          expected_node, node_diff, diff, extra_lines, position, left_line_number,
          right_line_number, current_hunk, hunks, output>>

-----------------------------------------------------------------------------
(* Bounds *)

\* The largest number of test directories given on the command line.
NumTests == 3

\* The longest line diff handed to hunkify_diff.
MaxDiffLen == 7

\* The largest number of context lines (extra_lines) asked of hunkify_diff.
MaxContext == 2

-----------------------------------------------------------------------------
(* Option<T> *)

None == [some |-> FALSE]
Some(x) == [some |-> TRUE, val |-> x]

\* Option::unwrap_or
unwrap_or(o, default) == IF o.some THEN o.val ELSE default

-----------------------------------------------------------------------------
(* The file system.  An inode is absent, a file, a directory or a symbolic *)
(* link; perm holds the nine permission bits.                              *)

Absent == [kind |-> "absent"]
IFile(data, perm, uid, gid) ==
    [kind |-> "file", data |-> data, perm |-> perm, uid |-> uid, gid |-> gid]
IDir(entries, perm, uid, gid) ==
    [kind |-> "dir", entries |-> entries, perm |-> perm, uid |-> uid, gid |-> gid]
ILink(target, perm, uid, gid) ==
    [kind |-> "symlink", target |-> target, perm |-> perm, uid |-> uid, gid |-> gid]

\* The user the harness (and cp, and the test command) runs as, and its umask (0o022).
Process == [uid |-> 1000, gid |-> 1000, umask |-> 18]

RECURSIVE BitAnd(_, _)
BitAnd(a, b) ==
    IF a = 0 \/ b = 0 THEN 0
    ELSE (a % 2) * (b % 2) + 2 * BitAnd(a \div 2, b \div 2)

\* mode & ~umask on the nine permission bits
ApplyUmask(perm) == BitAnd(perm, 511 - Process.umask)

\* st_mode: the file type bits (S_IFREG 0o100000, S_IFDIR 0o040000,
\* S_IFLNK 0o120000) plus the permission bits.
StMode(inode) ==
    (CASE inode.kind = "file" -> 32768
       [] inode.kind = "dir" -> 16384
       [] inode.kind = "symlink" -> 40960) + inode.perm

-----------------------------------------------------------------------------
(* results.rs: FileNode, Permissions, TestFieldComparison, RootTestResult  *)

\* results.rs Permissions::load_from: symlink_metadata of the entry itself
Permissions_load_from(inode) ==
    [mode |-> StMode(inode), uid |-> inode.uid, gid |-> inode.gid]

\* results.rs FileNode::load_from: a symbolic link is recognised first, then a
\* directory, anything else is read as a file.
RECURSIVE FileNode_load_from(_)
FileNode_load_from(inode) ==
    IF inode.kind = "symlink"
    THEN [type |-> "SymbolicLink", target |-> inode.target,
          permissions |-> Permissions_load_from(inode)]
    ELSE IF inode.kind = "dir"
    THEN [type |-> "Directory",
          children |-> [n \in DOMAIN inode.entries |->
                            FileNode_load_from(inode.entries[n])],
          permissions |-> Permissions_load_from(inode)]
    ELSE [type |-> "File", contents |-> inode.data,
          permissions |-> Permissions_load_from(inode)]

\* std::fs::read of a path that does not exist fails; so does every load
\* whose path vanished.
Loadable(inode) == inode.kind # "absent"

Identical == [tag |-> "Identical"]
Differs(l, r) == [tag |-> "Differs", left |-> l, right |-> r]

\* results.rs TestFieldComparison::identical
identical(c) == c.tag = "Identical"

\* results.rs RootTestResult::new, lines 64-68, 70-74, 76-80, 84-88: one comparison
CompareSwapped(actual, expected) ==
    IF actual = expected THEN Identical ELSE Differs(expected, actual)
Compare(actual, expected) ==
    IF actual = expected THEN Identical ELSE Differs(actual, expected)

ResultOk == [tag |-> "Ok"]
ResultIgnored == [tag |-> "Ignored"]
ResultFailed(status, stdout, stderr, root) ==
    [tag |-> "Failed", stdout |-> stdout, stderr |-> stderr,
     status |-> status, root |-> root]

\* results.rs RootTestResult::upgrade_to_ok
upgrade_to_ok_no_root(self) ==
    IF self.tag = "Ok" THEN ResultOk
    ELSE IF /\ self.tag = "Failed"
            /\ identical(self.status)
            /\ identical(self.stdout)
            /\ identical(self.stderr)
    THEN ResultOk
    ELSE self
upgrade_to_ok(self) ==
    IF self.tag = "Ok" THEN ResultOk
    ELSE IF /\ self.tag = "Failed"
            /\ identical(self.status)
            /\ identical(self.stdout)
            /\ identical(self.stderr)
            /\ identical(self.root)
    THEN ResultOk
    ELSE self

\* results.rs RootTestResult::ok
ok(r) == r.tag \in {"Ok", "Ignored"}

\* Counts::update counting an ignored test as a passed one
Counts_update_ignored_as_ok(c, r) ==
    CASE r.tag = "Ok" -> [c EXCEPT !.ok = @ + 1]
      [] r.tag = "Ignored" -> [c EXCEPT !.ok = @ + 1]
      [] r.tag = "Failed" -> [c EXCEPT !.failed = @ + 1]

\* results.rs Counts::update
Counts_update(c, r) ==
    CASE r.tag = "Ok" -> [c EXCEPT !.ok = @ + 1]
      [] r.tag = "Ignored" -> [c EXCEPT !.ignored = @ + 1]
      [] r.tag = "Failed" -> [c EXCEPT !.failed = @ + 1]

\* results.rs Counts::tests_passed
tests_passed(c) == c.failed = 0

-----------------------------------------------------------------------------
(* The strings and line diffs difference.rs and results.rs build: a byte   *)
(* string is a sequence of 0..255, a line is a byte string.                *)

\* A continuation byte of a UTF-8 sequence (0x80..0xBF)
Cont(b) == b \in 128..191

\* String::from_utf8(bytes).is_ok(): the well-formed UTF-8 byte sequences
RECURSIVE from_utf8_ok(_)
from_utf8_ok(bytes) ==
    LET n == Len(bytes)
        b(i) == bytes[i]
        rest(k) == from_utf8_ok(SubSeq(bytes, k + 1, n))
    IN  IF n = 0 THEN TRUE
        ELSE IF b(1) < 128 THEN rest(1)
        ELSE IF b(1) \in 194..223 THEN n >= 2 /\ Cont(b(2)) /\ rest(2)
        ELSE IF b(1) \in 224..239
        THEN /\ n >= 3
             /\ b(2) \in (IF b(1) = 224 THEN 160..191
                          ELSE IF b(1) = 237 THEN 128..159 ELSE 128..191)
             /\ Cont(b(3))
             /\ rest(3)
        ELSE IF b(1) \in 240..244
        THEN /\ n >= 4
             /\ b(2) \in (IF b(1) = 240 THEN 144..191
                          ELSE IF b(1) = 244 THEN 128..143 ELSE 128..191)
             /\ Cont(b(3))
             /\ Cont(b(4))
             /\ rest(4)
        ELSE FALSE

\* A line without the carriage return that preceded its line feed
StripCR(line) ==
    IF line # <<>> /\ line[Len(line)] = 13 THEN SubSeq(line, 1, Len(line) - 1)
    ELSE line

\* str::lines: the text is split at "\n" and at "\r\n"; the line ending of
\* the last line is optional, so no empty last line is produced.
RECURSIVE SplitLines(_, _)
SplitLines(bytes, line) ==
    IF bytes = <<>> THEN (IF line = <<>> THEN <<>> ELSE <<line>>)
    ELSE IF Head(bytes) = 10
    THEN <<StripCR(line)>> \o SplitLines(Tail(bytes), <<>>)
    ELSE SplitLines(Tail(bytes), Append(line, Head(bytes)))
str_lines(bytes) == SplitLines(bytes, <<>>)

\* diff::Result
Left(l) == [tag |-> "Left", l |-> l]
Right(r) == [tag |-> "Right", r |-> r]
Both(l, r) == [tag |-> "Both", l |-> l, r |-> r]

\* The diff crate's table: the length of the longest common subsequence of
\* the first i left and the first j right items
RECURSIVE Table(_, _, _, _)
Table(left, right, i, j) ==
    IF i = 0 \/ j = 0 THEN 0
    ELSE IF left[i] = right[j] THEN Table(left, right, i - 1, j - 1) + 1
    ELSE LET up == Table(left, right, i - 1, j)
             back == Table(left, right, i, j - 1)
         IN  IF up >= back THEN up ELSE back

\* The diff crate's walk back through the table from (i, j)
RECURSIVE Walk(_, _, _, _)
Walk(left, right, i, j) ==
    IF j > 0 /\ (i = 0 \/ Table(left, right, i, j) = Table(left, right, i, j - 1))
    THEN Append(Walk(left, right, i, j - 1), Right(right[j]))
    ELSE IF i > 0 /\ (j = 0 \/ Table(left, right, i, j) = Table(left, right, i - 1, j))
    THEN Append(Walk(left, right, i - 1, j), Left(left[i]))
    ELSE IF i > 0 /\ j > 0
    THEN Append(Walk(left, right, i - 1, j - 1), Both(left[i], right[j]))
    ELSE <<>>

\* The releases of the diff crate a build may link: before and after
\* diff::lines began to report the line ending of the last line.
DiffCrates == {"plain", "trailing"}

\* The last byte of a text is a line feed
EndsWithNewline(bytes) == bytes # <<>> /\ bytes[Len(bytes)] = 10

\* diff::lines(left, right): the diff of the two texts' lines; the later
\* releases add one item for the line ending of the last line.
diff_lines(left, right) ==
    LET l == str_lines(left)
        r == str_lines(right)
        items == Walk(l, r, Len(l), Len(r))
    IN  IF diff_crate = "plain" THEN items
        ELSE IF EndsWithNewline(left) /\ EndsWithNewline(right)
        THEN Append(items, Both(<<>>, <<>>))
        ELSE IF EndsWithNewline(left) THEN Append(items, Left(<<>>))
        ELSE IF EndsWithNewline(right) THEN Append(items, Right(<<>>))
        ELSE items

\* difference.rs is_different
is_different(d) == d.tag # "Both"

\* difference.rs diff_nonempty
diff_nonempty(d) == \E i \in 1..Len(d) : d[i].tag # "Both"

-----------------------------------------------------------------------------
(* difference.rs: FileNodeDiff                                             *)

\* results.rs FileNode::node_type
node_type(node) ==
    CASE node.type = "File" -> "file"
      [] node.type = "Directory" -> "directory"
      [] node.type = "SymbolicLink" -> "symbolic link"

FileNodeDiff_Identical == [tag |-> "Identical"]
Unexpected(t) == [tag |-> "Unexpected", type |-> t]
Missing(t) == [tag |-> "Missing", type |-> t]
DifferentTypeSwapped(a, e) == [tag |-> "DifferentType", actual |-> e, expected |-> a]
DifferentType(a, e) == [tag |-> "DifferentType", actual |-> a, expected |-> e]
FileDiffers(contents, permissions) ==
    [tag |-> "FileDiffers", contents |-> contents, permissions |-> permissions]
DirectoryDiffers(children, permissions) ==
    [tag |-> "DirectoryDiffers", children |-> children, permissions |-> permissions]
SymbolicLinkDiffers(target, permissions) ==
    [tag |-> "SymbolicLinkDiffers", target |-> target, permissions |-> permissions]

\* FileDiff
FileDiff_Diff(d) == [tag |-> "Diff", diff |-> d]
FileDiff_Binary == [tag |-> "Binary"]

\* The call did not return: an assert! failed and the thread unwinds
Panic == [tag |-> "Panic"]

\* PermissionsDiff::from_permissions comparing the mode only
PermissionsDiff_mode_only(actual, expected) ==
    [mode |-> IF actual.mode = expected.mode THEN Identical
              ELSE Differs(actual.mode, expected.mode),
     uid |-> Identical,
     gid |-> Identical]

\* difference.rs PermissionsDiff::from_permissions
PermissionsDiff_from_permissions(actual, expected) ==
    [mode |-> IF actual.mode = expected.mode THEN Identical
              ELSE Differs(actual.mode, expected.mode),
     uid |-> IF actual.uid = expected.uid THEN Identical
             ELSE Differs(actual.uid, expected.uid),
     gid |-> IF actual.gid = expected.gid THEN Identical
             ELSE Differs(actual.gid, expected.gid)]

\* PermissionsOf without the comparison of the two Permissions
PermissionsOfAlways(actual, expected) ==
    Some(PermissionsDiff_from_permissions(actual.permissions, expected.permissions))

\* from_file_nodes: the `permissions` local of each of the three arms
PermissionsOf(actual, expected) ==
    IF actual.permissions = expected.permissions THEN None
    ELSE Some(PermissionsDiff_from_permissions(actual.permissions,
                                               expected.permissions))

\* ContentsOf taking contents of one length for equal
ContentsOfByLength(actual_contents, expected_contents) ==
    IF Len(actual_contents) = Len(expected_contents) THEN None
    ELSE IF from_utf8_ok(actual_contents) /\ from_utf8_ok(expected_contents)
    THEN LET d == diff_lines(actual_contents, expected_contents)
         IN  IF diff_nonempty(d) THEN Some(FileDiff_Diff(d)) ELSE Panic
    ELSE Some(FileDiff_Binary)

\* ContentsOf decoding both sides before it compares them
ContentsOfDecodeFirst(actual_contents, expected_contents) ==
    IF from_utf8_ok(actual_contents) /\ from_utf8_ok(expected_contents)
    THEN IF actual_contents = expected_contents THEN None
         ELSE LET d == diff_lines(actual_contents, expected_contents)
              IN  IF diff_nonempty(d) THEN Some(FileDiff_Diff(d)) ELSE Panic
    ELSE Some(FileDiff_Binary)

\* from_file_nodes, lines 198-216: the `contents` local of the File arm; the
\* assert! on the line diff is evaluated as the code evaluates it
ContentsOf(actual_contents, expected_contents) ==
    IF actual_contents = expected_contents THEN None
    ELSE IF from_utf8_ok(actual_contents) /\ from_utf8_ok(expected_contents)
    THEN LET d == diff_lines(actual_contents, expected_contents)
         IN  IF diff_nonempty(d) THEN Some(FileDiff_Diff(d)) ELSE Panic
    ELSE Some(FileDiff_Binary)

\* ChildrenOf without the loop over the children only the actual side has
ChildrenOfNoUnexpected(actual_children, expected_children, compared) ==
    LET different == {n \in DOMAIN compared : compared[n] # FileNodeDiff_Identical}
        missing == DOMAIN expected_children \ DOMAIN compared
        different_children ==
            [n \in different \cup missing |->
                IF n \in different THEN compared[n]
                ELSE Missing(node_type(expected_children[n]))]
    IN  IF DOMAIN different_children = {} THEN None
        ELSE Some(different_children)

\* ChildrenOf inserting the diff of every compared child, identical or not
ChildrenOfKeepIdentical(actual_children, expected_children, compared) ==
    LET missing == DOMAIN expected_children \ DOMAIN compared
        unexpected == DOMAIN actual_children \ DOMAIN compared
        different_children ==
            [n \in DOMAIN compared \cup missing \cup unexpected |->
                IF n \in DOMAIN compared THEN compared[n]
                ELSE IF n \in missing
                THEN Missing(node_type(expected_children[n]))
                ELSE Unexpected(node_type(actual_children[n]))]
    IN  IF DOMAIN different_children = {} THEN None
        ELSE Some(different_children)

\* ChildrenOf with the two loops over the one-sided children exchanged
ChildrenOfSwapped(actual_children, expected_children, compared) ==
    LET different == {n \in DOMAIN compared : compared[n] # FileNodeDiff_Identical}
        missing == DOMAIN expected_children \ DOMAIN compared
        unexpected == DOMAIN actual_children \ DOMAIN compared
        different_children ==
            [n \in different \cup missing \cup unexpected |->
                IF n \in different THEN compared[n]
                ELSE IF n \in missing
                THEN Unexpected(node_type(expected_children[n]))
                ELSE Missing(node_type(actual_children[n]))]
    IN  IF DOMAIN different_children = {} THEN None
        ELSE Some(different_children)

\* from_file_nodes, lines 279-322: the `children` local of the Directory
\* arm; compared holds the recursive diff of every name both sides have
ChildrenOf(actual_children, expected_children, compared) ==
    LET different == {n \in DOMAIN compared : compared[n] # FileNodeDiff_Identical}
        missing == DOMAIN expected_children \ DOMAIN compared
        unexpected == DOMAIN actual_children \ DOMAIN compared
        different_children ==
            [n \in different \cup missing \cup unexpected |->
                IF n \in different THEN compared[n]
                ELSE IF n \in missing
                THEN Missing(node_type(expected_children[n]))
                ELSE Unexpected(node_type(actual_children[n]))]
    IN  IF DOMAIN different_children = {} THEN None
        ELSE Some(different_children)

\* difference.rs FileNodeDiff::from_file_nodes
RECURSIVE from_file_nodes(_, _)
from_file_nodes(actual, expected) ==
    IF actual.type = "File" /\ expected.type = "File"
    THEN LET contents == ContentsOf(actual.contents, expected.contents)
             permissions == PermissionsOf(actual, expected)
         IN  IF contents = Panic THEN Panic
             ELSE IF contents = None /\ permissions = None
             THEN FileNodeDiff_Identical
             ELSE FileDiffers(contents, permissions)
    ELSE IF actual.type = "SymbolicLink" /\ expected.type = "SymbolicLink"
    THEN LET target == IF actual.target = expected.target THEN None
                       ELSE Some(<<actual.target, expected.target>>)
             permissions == PermissionsOf(actual, expected)
         IN  IF target = None /\ permissions = None THEN FileNodeDiff_Identical
             ELSE SymbolicLinkDiffers(target, permissions)
    ELSE IF actual.type = "Directory" /\ expected.type = "Directory"
    THEN LET compared_children == DOMAIN actual.children \cap DOMAIN expected.children
             compared == [n \in compared_children |->
                            from_file_nodes(actual.children[n], expected.children[n])]
             children == ChildrenOf(actual.children, expected.children, compared)
             permissions == PermissionsOf(actual, expected)
         IN  IF \E n \in compared_children : compared[n] = Panic THEN Panic
             ELSE IF children = None /\ permissions = None
             THEN FileNodeDiff_Identical
             ELSE DirectoryDiffers(children, permissions)
    ELSE DifferentType(node_type(actual), node_type(expected))

-----------------------------------------------------------------------------
(* The external commands RootTest::run starts                              *)

\* `cp -r src dst` of one tree: the copy belongs to the invoking user and its
\* permission bits are the source's without the umask bits; symbolic links
\* are copied as links.
RECURSIVE CpR(_)
CpR(inode) ==
    IF inode.kind = "dir"
    THEN IDir([n \in DOMAIN inode.entries |-> CpR(inode.entries[n])],
              ApplyUmask(inode.perm), Process.uid, Process.gid)
    ELSE IF inode.kind = "symlink"
    THEN ILink(inode.target, inode.perm, Process.uid, Process.gid)
    ELSE IFile(inode.data, ApplyUmask(inode.perm), Process.uid, Process.gid)

\* `cp -r root_before root`: when root does not exist the copy becomes root;
\* when root is an existing directory the copy is made inside it, under the
\* source's name.
CpInto(src, dst) ==
    IF dst.kind = "absent" THEN CpR(src)
    ELSE [dst EXCEPT !.entries =
            [n \in DOMAIN dst.entries \cup {"root_before"} |->
                IF n = "root_before" THEN CpR(src) ELSE dst.entries[n]]]

\* A file written by `sh` redirection or std::fs::write: an existing file
\* keeps its owner and mode, a new one is created 0o666 less the umask.
WriteFile(old, data) ==
    IF old.kind = "file" THEN [old EXCEPT !.data = data]
    ELSE IFile(data, ApplyUmask(438), Process.uid, Process.gid)

\* The commands fixtures use as `run`; the last one stands for any command
\* by which the process the harness started is ended by a signal.
Commands == {"true", "exit 3", "echo a", "echo a >&2", "echo y > a.txt", "kill -9 $$"}

\* tests.rs line 114: format!("cd {:?} && {}", self.params.cd, self.params.run)
Script(cd, run) == <<"cd", cd, "&&", run>>

\* tests.rs lines 109-115: the command line of the chrooted process; envs is
\* what Command::env / Command::envs added to the inherited environment.
LaunchCommand(test) ==
    [program |-> "fakechroot",
     args |-> <<"chroot", test.root, "sh", "-c", Script(test.params.cd, test.params.run)>>,
     envs |-> <<>>]

\* Whether `cd <path>` succeeds inside the root: path is the list of the
\* directory names below "/".
RECURSIVE IsDirAt(_, _)
IsDirAt(inode, path) ==
    /\ inode.kind = "dir"
    /\ \/ path = <<>>
       \/ /\ Head(path) \in DOMAIN inode.entries
          /\ IsDirAt(inode.entries[Head(path)], Tail(path))

\* What `sh -c "cd <cd> && <run>"` does inside root: the captured
\* std::process::Output (status.code(), stdout, stderr) and the root it leaves.
\* A failed cd ends the script with status 2 and a message on stderr.
Exec(root, cmd) ==
    LET script == cmd.args[5]
        cd == script[2]
        run == script[4]
        out(code, o, e, r) == [code |-> code, stdout |-> o, stderr |-> e, root |-> r]
    IN  IF ~IsDirAt(root, cd) THEN out(Some(2), <<>>, <<99, 100, 10>>, root)
        ELSE CASE run = "true" -> out(Some(0), <<>>, <<>>, root)
               [] run = "exit 3" -> out(Some(3), <<>>, <<>>, root)
               [] run = "echo a" -> out(Some(0), <<97, 10>>, <<>>, root)
               [] run = "echo a >&2" -> out(Some(0), <<>>, <<97, 10>>, root)
               [] run = "echo y > a.txt" ->
                    out(Some(0), <<>>, <<>>,
                        [root EXCEPT !.entries =
                            [n \in DOMAIN root.entries \cup {"a.txt"} |->
                                IF n = "a.txt"
                                THEN WriteFile(IF n \in DOMAIN root.entries
                                               THEN root.entries[n] ELSE Absent,
                                               <<121, 10>>)
                                ELSE root.entries[n]]])
               [] run = "kill -9 $$" -> out(None, <<>>, <<>>, root)

-----------------------------------------------------------------------------
(* Fixtures on disk                                                        *)

\* root_before / root_after trees: a directory holding a.txt
TreeOf(data, fileperm) ==
    IDir([n \in {"a.txt"} |-> IFile(data, fileperm, Process.uid, Process.gid)],
         493, Process.uid, Process.gid)
TreeX == TreeOf(<<120, 10>>, 420)
TreeXOpen == TreeOf(<<120, 10>>, 438)
TreeY == TreeOf(<<121, 10>>, 420)

\* What an earlier run may have left beside the fixture: nothing, or a root
\* and the two actual-output files.
LeftClean == [root |-> Absent, actual_stdout |-> Absent, actual_stderr |-> Absent]
LeftStale ==
    [root |-> IDir([n \in {"junk"} |-> IFile(<<106>>, 420, Process.uid, Process.gid)],
                   493, Process.uid, Process.gid),
     actual_stdout |-> IFile(<<115>>, 420, Process.uid, Process.gid),
     actual_stderr |-> IFile(<<115>>, 420, Process.uid, Process.gid)]

\* One test directory: the parsed Roottest.toml and environment.toml, the
\* recorded input and outputs, the three trees and the actual-output files.
TestDir(params, environment, out, err, before, after, left) ==
    [params |-> params, stdin |-> <<>>, expected_stdout |-> out,
     expected_stderr |-> err, environment |-> environment,
     root_before |-> before, root_after |-> after, root |-> left.root,
     actual_stdout |-> left.actual_stdout, actual_stderr |-> left.actual_stderr]

EnvEmpty == [n \in {} |-> ""]
EnvFoo == [n \in {"FOO"} |-> "bar"]

\* The test directories of the single-fixture specification: every
\* combination of command, expected status, expected outputs, expected tree
\* and leftover state; an expected stdout that differs from the actual one
\* in its last line ending only; and every combination of working directory,
\* environment, ignore flag, before tree and leftover state.
FixtureDirs ==
    { TestDir(p, EnvEmpty, o, r, TreeX, a, l) :
        p \in [cd : {<<>>}, run : Commands, expected_status : {0, 3},
               ignore : {None}],
        o \in {<<>>, <<97, 10>>},
        r \in {<<>>, <<97, 10>>},
        a \in {TreeX, TreeY},
        l \in {LeftClean, LeftStale} }
    \cup
    { TestDir([cd |-> <<>>, run |-> "echo a", expected_status |-> 0, ignore |-> None],
              EnvEmpty, o, <<>>, TreeX, TreeX, LeftClean) :
        o \in {<<97>>, <<97, 13, 10>>} }
    \cup
    { TestDir(p, e, <<>>, <<>>, b, TreeX, l) :
        p \in [cd : {<<>>, <<"d">>}, run : {"true"}, expected_status : {0},
               ignore : {None, Some(TRUE), Some(FALSE)}],
        e \in {EnvEmpty, EnvFoo},
        b \in {TreeX, TreeXOpen},
        l \in {LeftClean, LeftStale} }

\* The test directories of the multi-fixture specification: fixtures that
\* pass, fail, are ignored, or whose command is killed by a signal.
SuiteDirs ==
    { TestDir(p, EnvEmpty, <<>>, <<>>, TreeX, TreeX, LeftClean) :
        p \in [cd : {<<>>}, run : {"true", "exit 3", "kill -9 $$"},
               expected_status : {0}, ignore : {None, Some(TRUE)}] }

Options == [cleanup : BOOLEAN, include_ignored : BOOLEAN, quiet : 0..2]

\* No call of from_file_nodes is being followed
NoDiffer ==
    /\ actual_node = None
    /\ expected_node = None
    /\ node_diff = None

\* No call of hunkify_diff is being followed
NoHunks ==
    /\ diff = <<>>
    /\ extra_lines = 0
    /\ position = 0
    /\ left_line_number = 0
    /\ right_line_number = 0
    /\ current_hunk = None
    /\ hunks = <<>>

\* The state when the process starts, for n test directories drawn from dirs
\* and a build with one of the given releases of the diff crate.
InitWith(dirs, n, crates) ==
    /\ diff_crate \in crates
    /\ output = None
    /\ NoDiffer
    /\ NoHunks
    /\ opt \in Options
    /\ test_dirs = [i \in 1..n |-> i]
    /\ disk \in [1..n -> dirs]
    /\ tests = <<>>
    /\ pc = "load"
    /\ idx = 1
    /\ counts = [ok |-> 0, failed |-> 0, ignored |-> 0]
    /\ fails = <<>>
    /\ process_output = None
    /\ cmp = None
    /\ result = None
    /\ ret = None
    /\ exit_code = None
    /\ events = <<>>

\* No fixture of SuiteDirs differs in an output or in a tree, so no run over
\* them computes a line diff: one release of the diff crate stands for both.
Init == \E n \in 0..NumTests : InitWith(SuiteDirs, n, {"trailing"})

InitFixture == InitWith(FixtureDirs, 1, DiffCrates)

-----------------------------------------------------------------------------
(* main.rs run: loading                                                    *)

\* tests.rs RootTest::from_dir
from_dir(d) ==
    [name |-> d,
     params |-> disk[d].params,
     stdin |-> disk[d].stdin,
     expected_stdout |-> disk[d].expected_stdout,
     expected_stderr |-> disk[d].expected_stderr,
     environment |-> disk[d].environment,
     root_before |-> <<d, "root_before">>,
     root |-> <<d, "root">>,
     root_after |-> <<d, "root_after">>,
     actual_stdout |-> <<d, "actual.stdout">>,
     actual_stderr |-> <<d, "actual.stderr">>]

\* The inode at a path of a test directory
At(path) ==
    CASE path[2] = "root_before" -> disk[path[1]].root_before
      [] path[2] = "root" -> disk[path[1]].root
      [] path[2] = "root_after" -> disk[path[1]].root_after
      [] path[2] = "actual.stdout" -> disk[path[1]].actual_stdout
      [] path[2] = "actual.stderr" -> disk[path[1]].actual_stderr

Event(op, test) == [op |-> op, test |-> test]

\* An Err returned by RootTest::run, with the context of the failing step
Err(context) == [ok |-> FALSE, err |-> context]
Ok(r) == [ok |-> TRUE, val |-> r]

\* main.rs lines 46-51: one test directory is loaded
LoadTest ==
    /\ pc = "load"
    /\ Len(tests) < Len(test_dirs)
    /\ tests' = Append(tests, from_dir(test_dirs[Len(tests) + 1]))
    /\ UNCHANGED <<diff_crate, output, differ_vars, hunk_vars>>
    /\ UNCHANGED <<opt, test_dirs, disk, pc, idx, counts, fails, process_output,
                   cmp, result, ret, exit_code, events>>

\* main.rs lines 48-49, 19-26: from_dir fails (a fixture file is missing or
\* malformed); run returns the error and main exits with 2
LoadTestFail ==
    /\ pc = "load"
    /\ Len(tests) < Len(test_dirs)
    /\ pc' = "exit"
    /\ exit_code' = Some(2)
    /\ UNCHANGED <<diff_crate, output, differ_vars, hunk_vars>>
    /\ UNCHANGED <<opt, test_dirs, disk, tests, idx, counts, fails, process_output,
                   cmp, result, ret, events>>

\* main.rs lines 54-59: every test is loaded; the header is printed
StartTests ==
    /\ pc = "load"
    /\ Len(tests) = Len(test_dirs)
    /\ pc' = "next"
    /\ events' = IF opt.quiet = 0
                 THEN Append(events, Event("print_header", 0))
                 ELSE events
    /\ UNCHANGED <<diff_crate, output, differ_vars, hunk_vars>>
    /\ UNCHANGED <<opt, test_dirs, disk, tests, idx, counts, fails, process_output,
                   cmp, result, ret, exit_code>>

-----------------------------------------------------------------------------
(* main.rs run: the `for test in tests` loop, and tests.rs RootTest::run   *)

\* The fixture of the current iteration and its test directory
test == tests[idx]
dir == test.name

\* main.rs lines 60-67: the next fixture's name is printed and run() is called
BeginTest ==
    /\ pc = "next"
    /\ idx <= Len(tests)
    /\ pc' = "run"
    /\ events' = IF opt.quiet = 0 THEN Append(events, Event("print_name", dir))
                 ELSE events
    /\ process_output' = None
    /\ cmp' = None
    /\ result' = None
    /\ ret' = None
    /\ UNCHANGED <<diff_crate, output, differ_vars, hunk_vars>>
    /\ UNCHANGED <<opt, test_dirs, disk, tests, idx, counts, fails, exit_code>>

\* IgnoreCheck without the include_ignored test
IgnoreCheckAlways ==
    /\ pc = "run"
    /\ IF unwrap_or(test.params.ignore, FALSE)
       THEN /\ ret' = Some(Ok(ResultIgnored))
            /\ pc' = "returned"
       ELSE /\ ret' = ret
            /\ pc' = "clean_previous"
    /\ UNCHANGED <<diff_crate, output, differ_vars, hunk_vars>>
    /\ UNCHANGED <<opt, test_dirs, disk, tests, idx, counts, fails, process_output,
                   cmp, result, exit_code, events>>

\* tests.rs lines 77-80: an ignored fixture returns Ignored at once
IgnoreCheck ==
    /\ pc = "run"
    /\ IF unwrap_or(test.params.ignore, FALSE) /\ ~opt.include_ignored
       THEN /\ ret' = Some(Ok(ResultIgnored))
            /\ pc' = "returned"
       ELSE /\ ret' = ret
            /\ pc' = "clean_previous"
    /\ UNCHANGED <<diff_crate, output, differ_vars, hunk_vars>>
    /\ UNCHANGED <<opt, test_dirs, disk, tests, idx, counts, fails, process_output,
                   cmp, result, exit_code, events>>

\* One removal whose error is dropped (`let _ = ...`): an absent path stays
\* absent, a present one is removed unless the removal fails.
Removed(inode, succeeds) == IF succeeds THEN Absent ELSE inode

\* tests.rs lines 87-90: the previous root and actual-output files are removed
RemovePrevious ==
    /\ pc = "clean_previous"
    /\ \E r, o, e \in BOOLEAN :
        /\ (At(test.root).kind = "absent" => r)
        /\ (At(test.actual_stdout).kind = "absent" => o)
        /\ (At(test.actual_stderr).kind = "absent" => e)
        /\ disk' = [disk EXCEPT
                      ![dir].root = Removed(@, r),
                      ![dir].actual_stdout = Removed(@, o),
                      ![dir].actual_stderr = Removed(@, e)]
    /\ events' = events \o <<Event("remove_dir_all", dir),
                             Event("remove_stdout", dir),
                             Event("remove_stderr", dir)>>
    /\ pc' = "copy"
    /\ UNCHANGED <<diff_crate, output, differ_vars, hunk_vars>>
    /\ UNCHANGED <<opt, test_dirs, tests, idx, counts, fails, process_output,
                   cmp, result, ret, exit_code>>

\* tests.rs lines 92-106: cp -r root_before root succeeds
CopyRoot ==
    /\ pc = "copy"
    /\ At(test.root_before).kind = "dir"
    /\ At(test.root).kind \in {"absent", "dir"}
    /\ disk' = [disk EXCEPT ![dir].root = CpInto(At(test.root_before), @)]
    /\ events' = Append(events, Event("cp", dir))
    /\ pc' = "launch"
    /\ UNCHANGED <<diff_crate, output, differ_vars, hunk_vars>>
    /\ UNCHANGED <<opt, test_dirs, tests, idx, counts, fails, process_output,
                   cmp, result, ret, exit_code>>

\* tests.rs lines 93-106: cp cannot be started, or exits with a failure
CopyRootFail ==
    /\ pc = "copy"
    /\ \E context \in {"run cp -r self.root_before self.root", "failed to run cp -r"} :
        ret' = Some(Err(context))
    /\ events' = Append(events, Event("cp_failed", dir))
    /\ pc' = "returned"
    /\ UNCHANGED <<diff_crate, output, differ_vars, hunk_vars>>
    /\ UNCHANGED <<opt, test_dirs, disk, tests, idx, counts, fails, process_output,
                   cmp, result, exit_code>>

\* tests.rs lines 108-116: the chrooted process runs to its end
Launch ==
    /\ pc = "launch"
    /\ LET command == LaunchCommand(test)
           out == Exec(At(test.root), command)
       IN  /\ process_output' =
                Some([code |-> out.code, stdout |-> out.stdout, stderr |-> out.stderr])
           /\ disk' = [disk EXCEPT ![dir].root = out.root]
           /\ events' = Append(events,
                [op |-> "launch", test |-> dir, command |-> command,
                 root |-> At(test.root)])
    /\ pc' = "save"
    /\ UNCHANGED <<diff_crate, output, differ_vars, hunk_vars>>
    /\ UNCHANGED <<opt, test_dirs, tests, idx, counts, fails, cmp, result, ret,
                   exit_code>>

\* tests.rs lines 109-116: fakechroot cannot be started
LaunchFail ==
    /\ pc = "launch"
    /\ ret' = Some(Err("run test command in chroot"))
    /\ events' = Append(events, Event("launch_failed", dir))
    /\ pc' = "returned"
    /\ UNCHANGED <<diff_crate, output, differ_vars, hunk_vars>>
    /\ UNCHANGED <<opt, test_dirs, disk, tests, idx, counts, fails, process_output,
                   cmp, result, exit_code>>

\* SaveActual writing the captured stdout to both files
SaveActualStdoutTwice ==
    /\ pc = "save"
    /\ IF ~opt.cleanup
       THEN /\ disk' = [disk EXCEPT
                          ![dir].actual_stdout = WriteFile(@, process_output.val.stdout),
                          ![dir].actual_stderr = WriteFile(@, process_output.val.stdout)]
            /\ events' = events \o <<Event("write_stdout", dir),
                                     Event("write_stderr", dir)>>
       ELSE UNCHANGED <<disk, events>>
    /\ pc' = "new"
    /\ UNCHANGED <<diff_crate, output, differ_vars, hunk_vars>>
    /\ UNCHANGED <<opt, test_dirs, tests, idx, counts, fails, process_output,
                   cmp, result, ret, exit_code>>

\* tests.rs lines 118-124: without cleanup the captured outputs are saved
SaveActual ==
    /\ pc = "save"
    /\ IF ~opt.cleanup
       THEN /\ disk' = [disk EXCEPT
                          ![dir].actual_stdout = WriteFile(@, process_output.val.stdout),
                          ![dir].actual_stderr = WriteFile(@, process_output.val.stderr)]
            /\ events' = events \o <<Event("write_stdout", dir),
                                     Event("write_stderr", dir)>>
       ELSE UNCHANGED <<disk, events>>
    /\ pc' = "new"
    /\ UNCHANGED <<diff_crate, output, differ_vars, hunk_vars>>
    /\ UNCHANGED <<opt, test_dirs, tests, idx, counts, fails, process_output,
                   cmp, result, ret, exit_code>>

\* tests.rs lines 120-123: one of the two writes fails
SaveActualFail ==
    /\ pc = "save"
    /\ ~opt.cleanup
    /\ \/ /\ ret' = Some(Err("save actual stdout"))
          /\ disk' = disk
          /\ events' = Append(events, Event("write_failed", dir))
       \/ /\ ret' = Some(Err("save actual stderr"))
          /\ disk' = [disk EXCEPT
                        ![dir].actual_stdout = WriteFile(@, process_output.val.stdout)]
          /\ events' = events \o <<Event("write_stdout", dir),
                                   Event("write_failed", dir)>>
    /\ pc' = "returned"
    /\ UNCHANGED <<diff_crate, output, differ_vars, hunk_vars>>
    /\ UNCHANGED <<opt, test_dirs, tests, idx, counts, fails, process_output,
                   cmp, result, exit_code>>

\* results.rs line 63: a process ended by a signal has no status code and
\* expect() panics; a panicking Rust process ends with code 101
StatusPanic ==
    /\ pc = "new"
    /\ ~process_output.val.code.some
    /\ events' = Append(events, Event("panic", dir))
    /\ pc' = "exit"
    /\ exit_code' = Some(101)
    /\ UNCHANGED <<diff_crate, output, differ_vars, hunk_vars>>
    /\ UNCHANGED <<opt, test_dirs, disk, tests, idx, counts, fails, process_output,
                   cmp, result, ret>>

\* results.rs lines 59-97 (tests.rs line 127): the four comparisons and the verdict
GenerateResults ==
    /\ pc = "new"
    /\ process_output.val.code.some
    /\ Loadable(At(test.root))
    /\ Loadable(At(test.root_after))
    /\ LET status == Compare(process_output.val.code.val, test.params.expected_status)
           stdout == Compare(process_output.val.stdout, test.expected_stdout)
           stderr == Compare(process_output.val.stderr, test.expected_stderr)
           root == FileNode_load_from(At(test.root))
           root_after == FileNode_load_from(At(test.root_after))
           root_cmp == Compare(root, root_after)
       IN  /\ cmp' = Some([status |-> status, stdout |-> stdout, stderr |-> stderr,
                           root |-> root_cmp, actual_root |-> root,
                           expected_root |-> root_after])
           /\ result' = Some(upgrade_to_ok(ResultFailed(status, stdout, stderr, root_cmp)))
    /\ events' = events \o <<Event("load_root", dir), Event("load_root_after", dir)>>
    /\ pc' = "cleanup"
    /\ UNCHANGED <<diff_crate, output, differ_vars, hunk_vars>>
    /\ UNCHANGED <<opt, test_dirs, disk, tests, idx, counts, fails, process_output,
                   ret, exit_code>>

\* results.rs lines 82-83: one of the two trees cannot be loaded
LoadFail ==
    /\ pc = "new"
    /\ process_output.val.code.some
    /\ \/ /\ ret' = Some(Err("load actual root"))
          /\ events' = Append(events, Event("load_failed", dir))
       \/ /\ Loadable(At(test.root))
          /\ ret' = Some(Err("load expected root"))
          /\ events' = events \o <<Event("load_root", dir), Event("load_failed", dir)>>
    /\ pc' = "returned"
    /\ UNCHANGED <<diff_crate, output, differ_vars, hunk_vars>>
    /\ UNCHANGED <<opt, test_dirs, disk, tests, idx, counts, fails, process_output,
                   cmp, result, exit_code>>

\* tests.rs lines 130-137: the root is removed when cleanup is asked for, and
\* the verdict is returned
Cleanup ==
    /\ pc = "cleanup"
    /\ IF opt.cleanup
       THEN /\ disk' = [disk EXCEPT ![dir].root = Absent]
            /\ events' = Append(events, Event("cleanup", dir))
       ELSE UNCHANGED <<disk, events>>
    /\ ret' = Some(Ok(result.val))
    /\ pc' = "returned"
    /\ UNCHANGED <<diff_crate, output, differ_vars, hunk_vars>>
    /\ UNCHANGED <<opt, test_dirs, tests, idx, counts, fails, process_output,
                   cmp, result, exit_code>>

\* tests.rs line 132: the removal of the root fails
CleanupFail ==
    /\ pc = "cleanup"
    /\ opt.cleanup
    /\ ret' = Some(Err("clean up temporary root directory"))
    /\ events' = Append(events, Event("cleanup_failed", dir))
    /\ pc' = "returned"
    /\ UNCHANGED <<diff_crate, output, differ_vars, hunk_vars>>
    /\ UNCHANGED <<opt, test_dirs, disk, tests, idx, counts, fails, process_output,
                   cmp, result, exit_code>>

\* RunFailed going on with the next fixture instead of returning the error
RunFailedContinue ==
    /\ pc = "returned"
    /\ ~ret.val.ok
    /\ events' = Append(events, Event("display_error", dir))
    /\ idx' = idx + 1
    /\ pc' = "next"
    /\ UNCHANGED <<diff_crate, output, differ_vars, hunk_vars>>
    /\ UNCHANGED <<opt, test_dirs, disk, tests, counts, fails, process_output,
                   cmp, result, ret, exit_code>>

\* main.rs lines 66-68, 19-26: run() returned an error; main shows it and exits with 2
RunFailed ==
    /\ pc = "returned"
    /\ ~ret.val.ok
    /\ events' = Append(events, Event("display_error", dir))
    /\ pc' = "exit"
    /\ exit_code' = Some(2)
    /\ UNCHANGED <<diff_crate, output, differ_vars, hunk_vars>>
    /\ UNCHANGED <<opt, test_dirs, disk, tests, idx, counts, fails, process_output,
                   cmp, result, ret>>

\* RecordResult putting a failure in front of the earlier ones
RecordResultPrepend ==
    /\ pc = "returned"
    /\ ret.val.ok
    /\ LET r == ret.val.val
       IN  /\ events' = (IF opt.quiet \in {0, 1}
                         THEN Append(events, [op |-> "print_status", test |-> dir,
                                              quiet |-> opt.quiet, verdict |-> r.tag])
                         ELSE events)
                        \o <<[op |-> "count", test |-> dir, verdict |-> r.tag]>>
           /\ counts' = Counts_update(counts, r)
           /\ fails' = IF ~ok(r) THEN <<<<test.name, r>>>> \o fails ELSE fails
    /\ idx' = idx + 1
    /\ pc' = "next"
    /\ UNCHANGED <<diff_crate, output, differ_vars, hunk_vars>>
    /\ UNCHANGED <<opt, test_dirs, disk, tests, process_output, cmp, result, ret,
                   exit_code>>

\* main.rs lines 70-80: the verdict is printed and counted, a failure is kept
RecordResult ==
    /\ pc = "returned"
    /\ ret.val.ok
    /\ LET r == ret.val.val
       IN  /\ events' = (IF opt.quiet \in {0, 1}
                         THEN Append(events, [op |-> "print_status", test |-> dir,
                                              quiet |-> opt.quiet, verdict |-> r.tag])
                         ELSE events)
                        \o <<[op |-> "count", test |-> dir, verdict |-> r.tag]>>
           /\ counts' = Counts_update(counts, r)
           /\ fails' = IF ~ok(r) THEN Append(fails, <<test.name, r>>) ELSE fails
    /\ idx' = idx + 1
    /\ pc' = "next"
    /\ UNCHANGED <<diff_crate, output, differ_vars, hunk_vars>>
    /\ UNCHANGED <<opt, test_dirs, disk, tests, process_output, cmp, result, ret,
                   exit_code>>

\* main.rs line 60: the loop is over
EndTests ==
    /\ pc = "next"
    /\ idx > Len(tests)
    /\ pc' = "report"
    /\ UNCHANGED <<diff_crate, output, differ_vars, hunk_vars>>
    /\ UNCHANGED <<opt, test_dirs, disk, tests, idx, counts, fails, process_output,
                   cmp, result, ret, exit_code, events>>

\* difference.rs print_diff returns: its expect("at least one hunk") holds.
\* hunkify_diff hands back a hunk exactly for a diff that holds a change.
print_diff_returns(d) == diff_nonempty(d)

\* difference.rs FileNodeDiff::print reaches unreachable!("printing
\* identical node"), in the node itself or in a child it prints
RECURSIVE print_reaches_identical(_)
print_reaches_identical(d) ==
    \/ d.tag = "Identical"
    \/ /\ d.tag = "DirectoryDiffers"
       /\ d.children.some
       /\ \E n \in DOMAIN d.children.val : print_reaches_identical(d.children.val[n])

\* The line diffs FileNodeDiff::print hands to print_diff
RECURSIVE PrintedDiffs(_)
PrintedDiffs(d) ==
    IF d.tag = "FileDiffers" /\ d.contents.some /\ d.contents.val.tag = "Diff"
    THEN {d.contents.val.diff}
    ELSE IF d.tag = "DirectoryDiffers" /\ d.children.some
    THEN UNION {PrintedDiffs(d.children.val[n]) : n \in DOMAIN d.children.val}
    ELSE {}

\* difference.rs FileNodeDiff::print returns
print_returns(d) ==
    /\ ~print_reaches_identical(d)
    /\ \A x \in PrintedDiffs(d) : print_diff_returns(x)

\* results.rs output_diff returns: the assert! of line 184 on the line diff
\* of two outputs that both decode holds, and so does print_diff's expect
output_diff_returns(o) ==
    (/\ o.tag = "Differs"
     /\ from_utf8_ok(o.left)
     /\ from_utf8_ok(o.right)) =>
        /\ diff_nonempty(diff_lines(o.left, o.right))
        /\ print_diff_returns(diff_lines(o.left, o.right))

\* results.rs print_details returns: neither output_diff panics, nor the
\* from_file_nodes of a differing root, nor the print of its result
print_details_returns(r) ==
    /\ output_diff_returns(r.stdout)
    /\ output_diff_returns(r.stderr)
    /\ r.root.tag = "Differs" =>
        /\ from_file_nodes(r.root.left, r.root.right) # Panic
        /\ print_returns(from_file_nodes(r.root.left, r.root.right))

\* main.rs lines 83-104, 19-21: the failures' details and the summary are
\* printed; the exit code is 0 when no test failed and 1 otherwise.  A
\* print_details that panics ends the process at that failure.
Report ==
    /\ pc = "report"
    /\ LET panicking == {i \in 1..Len(fails) : ~print_details_returns(fails[i][2])}
           last == IF panicking = {} THEN Len(fails)
                   ELSE CHOOSE i \in panicking : \A j \in panicking : i <= j
       IN  IF panicking = {}
           THEN /\ events' = events
                        \o [i \in 1..Len(fails) |-> Event("print_details", fails[i][1])]
                        \o (IF opt.quiet <= 1 \/ ~tests_passed(counts)
                            THEN <<Event("print_summary", 0)>> ELSE <<>>)
                /\ exit_code' = Some(IF tests_passed(counts) THEN 0 ELSE 1)
           ELSE /\ events' = events
                        \o [i \in 1..last |-> Event("print_details", fails[i][1])]
                        \o <<Event("panic", fails[last][1])>>
                /\ exit_code' = Some(101)
    /\ pc' = "exit"
    /\ UNCHANGED <<diff_crate, output, differ_vars, hunk_vars>>
    /\ UNCHANGED <<opt, test_dirs, disk, tests, idx, counts, fails, process_output,
                   cmp, result, ret>>

Next ==
    \/ LoadTest \/ LoadTestFail \/ StartTests
    \/ BeginTest \/ IgnoreCheck \/ RemovePrevious
    \/ CopyRoot \/ CopyRootFail
    \/ Launch \/ LaunchFail
    \/ SaveActual \/ SaveActualFail
    \/ StatusPanic \/ GenerateResults \/ LoadFail
    \/ Cleanup \/ CleanupFail
    \/ RunFailed \/ RecordResult
    \/ EndTests \/ Report

\* A run over up to NumTests fixtures
Spec == Init /\ [][Next]_vars

\* A run over one fixture, drawn from the wide set
SpecFixture == InitFixture /\ [][Next]_vars

-----------------------------------------------------------------------------
(* One call of FileNodeDiff::from_file_nodes on two loaded trees           *)

\* No run of the harness is being followed
NoRun ==
    /\ opt = [cleanup |-> FALSE, include_ignored |-> FALSE, quiet |-> 0]
    /\ test_dirs = <<>>
    /\ disk = <<>>
    /\ tests = <<>>
    /\ idx = 1
    /\ counts = [ok |-> 0, failed |-> 0, ignored |-> 0]
    /\ fails = <<>>
    /\ process_output = None
    /\ cmp = None
    /\ result = None
    /\ ret = None
    /\ exit_code = None
    /\ events = <<>>

\* An inode owned by the invoking user
UFile(data, perm) == IFile(data, perm, Process.uid, Process.gid)
UDir(entries, perm) == IDir(entries, perm, Process.uid, Process.gid)

\* The directories holding some of the names "a" and "b", each an inode of
\* the given set
DirsOver(inodes, perm) ==
    { UDir(f, perm) : f \in UNION { [S -> inodes] : S \in SUBSET {"a", "b"} } }

\* Files and symbolic links: two contents, two modes, two targets, two owners
LeafInodes ==
    { UFile(d, p) : d \in {<<120, 10>>, <<121, 10>>}, p \in {420, 384} }
    \cup { ILink(t, 511, u, u) : t \in {"t1", "t2"}, u \in {Process.uid, 0} }

\* Directories of files and links, and the one-entry ones with another mode
FlatDirs ==
    DirsOver(LeafInodes, 493)
    \cup { UDir(f, 448) : f \in UNION { [S -> LeafInodes] : S \in {{}, {"a"}} } }

\* The inodes found inside the nested directories
InnerInodes ==
    { UFile(<<120, 10>>, 420), ILink("t1", 511, Process.uid, Process.gid),
      UDir(<<>>, 493), UDir([n \in {"a"} |-> UFile(<<120, 10>>, 420)], 493),
      UDir([n \in {"a"} |-> UFile(<<121, 10>>, 420)], 493),
      UDir([n \in {"a"} |-> UFile(<<120, 10>>, 420)], 448),
      UDir([n \in {"b"} |-> UFile(<<120, 10>>, 420)], 448) }

\* Directories of directories, two and three levels deep
NestedDirs == DirsOver(InnerInodes, 493)
DeepDirs ==
    { UDir([n \in {"a"} |-> d], 493) :
        d \in DirsOver({UDir(<<>>, 493),
                        UDir([n \in {"a"} |-> UFile(<<120, 10>>, 420)], 493)}, 493) }

\* File contents: empty, with and without a last line ending, "\n" and
\* "\r\n" endings, several lines, two-byte characters, and byte strings
\* that are not UTF-8
Texts ==
    { <<>>, <<97>>, <<97, 10>>, <<97, 13, 10>>, <<10>>, <<97, 10, 98>>,
      <<97, 10, 98, 10>>, <<98, 10, 97, 10>>, <<97, 13, 10, 98, 10>>,
      <<195, 169>>, <<195, 169, 10>>, <<255>>, <<255, 10>>, <<97, 10, 195>> }

\* Files of every text, alone and inside a directory
TextInodes ==
    { UFile(d, p) : d \in Texts, p \in {420, 384} }
    \cup { UDir([n \in {"a"} |-> UFile(d, 420)], 493) :
             d \in {<<97, 10>>, <<97, 13, 10>>, <<255>>} }

\* The loaded trees from_file_nodes is called on
Nodes ==
    { FileNode_load_from(i) :
        i \in LeafInodes \cup FlatDirs \cup NestedDirs \cup DeepDirs \cup TextInodes }

InitDiff ==
    /\ NoRun
    /\ output = None
    /\ NoHunks
    /\ diff_crate \in DiffCrates
    /\ actual_node \in Nodes
    /\ expected_node \in Nodes
    /\ node_diff = None
    /\ pc = "from_file_nodes"

\* from_file_nodes returns its FileNodeDiff
DifferReturn ==
    /\ pc = "from_file_nodes"
    /\ from_file_nodes(actual_node, expected_node) # Panic
    /\ node_diff' = Some(from_file_nodes(actual_node, expected_node))
    /\ pc' = "differ_returned"
    /\ UNCHANGED <<diff_crate, output, actual_node, expected_node, run_vars, hunk_vars>>

\* difference.rs line 211: the assert! on the line diff fails
DifferPanic ==
    /\ pc = "from_file_nodes"
    /\ from_file_nodes(actual_node, expected_node) = Panic
    /\ pc' = "differ_panicked"
    /\ UNCHANGED <<diff_crate, output, differ_vars, run_vars, hunk_vars>>

NextDiff == DifferReturn \/ DifferPanic

SpecDiff == InitDiff /\ [][NextDiff]_vars

-----------------------------------------------------------------------------
(* One call of hunkify_diff, one loop iteration at a time                  *)

\* The item of a line diff at position i: its text is the position, so an
\* item of a hunk tells which item of the input it was cloned from
Item(tag, i) ==
    CASE tag = "Left" -> Left(<<i>>)
      [] tag = "Right" -> Right(<<i>>)
      [] tag = "Both" -> Both(<<i>>, <<i>>)

\* The line diffs of up to MaxDiffLen items
Diffs ==
    UNION { { [i \in 1..n |-> Item(t[i], i)] : t \in [1..n -> {"Left", "Right", "Both"}] } :
            n \in 0..MaxDiffLen }

InitHunk ==
    /\ NoRun
    /\ output = None
    /\ NoDiffer
    /\ diff_crate \in DiffCrates
    /\ diff \in Diffs
    /\ extra_lines \in 0..MaxContext
    /\ position = 1
    /\ left_line_number = 1
    /\ right_line_number = 1
    /\ current_hunk = None
    /\ hunks = <<>>
    /\ pc = "hunkify"

\* The item of this iteration
line == diff[position]

\* hunkify_diff lines 77-79, 88-90: the open hunk, opened here when there is none
Opened ==
    IF current_hunk = None THEN <<left_line_number, right_line_number, <<>>>>
    ELSE current_hunk.val

\* current_hunk.as_mut().unwrap().2.push(line.clone()) on the hunk h
Pushed(h) == Some(<<h[1], h[2], Append(h[3], line)>>)

\* ChangeAhead looking one item farther
ChangeAheadWide ==
    \E i \in position..(IF position + extra_lines + 1 <= Len(diff)
                        THEN position + extra_lines + 1 ELSE Len(diff)) :
        is_different(diff[i])

\* hunkify_diff lines 83-85: diff[position..=min(position + extra_lines, diff.len() - 1)].iter().any(is_different)
ChangeAhead ==
    \E i \in position..(IF position + extra_lines <= Len(diff)
                        THEN position + extra_lines ELSE Len(diff)) :
        is_different(diff[i])

\* ChangeBehind looking one item less far
ChangeBehindShort ==
    \E i \in (IF position - extra_lines + 1 >= 1 THEN position - extra_lines + 1 ELSE 1)
              ..(position - 1) :
        is_different(diff[i])

\* hunkify_diff lines 92-94: diff[position.saturating_sub(extra_lines)..position].iter().any(is_different)
ChangeBehind ==
    \E i \in (IF position - extra_lines >= 1 THEN position - extra_lines ELSE 1)
              ..(position - 1) :
        is_different(diff[i])

\* Advance with one counter for both sides
AdvanceTogether ==
    /\ left_line_number' = left_line_number + 1
    /\ right_line_number' = right_line_number + 1
    /\ position' = position + 1

\* hunkify_diff lines 105-117: the line numbers after this item, and the next position
Advance ==
    /\ left_line_number' = left_line_number + (IF line.tag = "Right" THEN 0 ELSE 1)
    /\ right_line_number' = right_line_number + (IF line.tag = "Left" THEN 0 ELSE 1)
    /\ position' = position + 1

\* HunkChange emitting the item as a hunk of its own, leaving none open
HunkChangeAlone ==
    /\ pc = "hunkify"
    /\ position <= Len(diff)
    /\ line.tag \in {"Left", "Right"}
    /\ hunks' = Append(hunks, <<left_line_number, right_line_number, <<line>>>>)
    /\ Advance
    /\ UNCHANGED <<diff, extra_lines, current_hunk, pc, diff_crate, output, differ_vars, run_vars>>

\* hunkify_diff lines 75-81: a Left or Right item goes into the open hunk
HunkChange ==
    /\ pc = "hunkify"
    /\ position <= Len(diff)
    /\ line.tag \in {"Left", "Right"}
    /\ current_hunk' = Pushed(Opened)
    /\ Advance
    /\ UNCHANGED <<diff, extra_lines, hunks, pc, diff_crate, output, differ_vars, run_vars>>

\* hunkify_diff lines 82-91: a Both item with a change at most extra_lines
\* ahead is context before it
HunkContextBefore ==
    /\ pc = "hunkify"
    /\ position <= Len(diff)
    /\ line.tag = "Both"
    /\ ChangeAhead
    /\ current_hunk' = Pushed(Opened)
    /\ Advance
    /\ UNCHANGED <<diff, extra_lines, hunks, pc, diff_crate, output, differ_vars, run_vars>>

\* hunkify_diff lines 92-97: a Both item with a change at most extra_lines
\* behind is context after it; the unwrap panics when no hunk is open
HunkContextAfter ==
    /\ pc = "hunkify"
    /\ position <= Len(diff)
    /\ line.tag = "Both"
    /\ ~ChangeAhead
    /\ ChangeBehind
    /\ IF current_hunk = None
       THEN /\ pc' = "hunk_panicked"
            /\ UNCHANGED <<current_hunk, position, left_line_number, right_line_number>>
       ELSE /\ current_hunk' = Pushed(current_hunk.val)
            /\ Advance
            /\ pc' = pc
    /\ UNCHANGED <<diff, extra_lines, hunks, diff_crate, output, differ_vars, run_vars>>

\* HunkOutside putting the finished hunk in front of the earlier ones
HunkOutsidePrepend ==
    /\ pc = "hunkify"
    /\ position <= Len(diff)
    /\ line.tag = "Both"
    /\ ~ChangeAhead
    /\ ~ChangeBehind
    /\ hunks' = IF current_hunk = None THEN hunks ELSE <<current_hunk.val>> \o hunks
    /\ current_hunk' = None
    /\ Advance
    /\ UNCHANGED <<diff, extra_lines, pc, diff_crate, output, differ_vars, run_vars>>

\* hunkify_diff lines 98-101: a Both item away from every change ends the open hunk
HunkOutside ==
    /\ pc = "hunkify"
    /\ position <= Len(diff)
    /\ line.tag = "Both"
    /\ ~ChangeAhead
    /\ ~ChangeBehind
    /\ hunks' = IF current_hunk = None THEN hunks ELSE Append(hunks, current_hunk.val)
    /\ current_hunk' = None
    /\ Advance
    /\ UNCHANGED <<diff, extra_lines, pc, diff_crate, output, differ_vars, run_vars>>

\* HunkFinish returning without the push of the hunk still open
HunkFinishNoPush ==
    /\ pc = "hunkify"
    /\ position > Len(diff)
    /\ pc' = "hunk_returned"
    /\ UNCHANGED <<diff, extra_lines, position, left_line_number, right_line_number,
                   current_hunk, hunks, diff_crate, output, differ_vars, run_vars>>

\* hunkify_diff lines 120-125: after the loop the open hunk is pushed and
\* hunks is returned
HunkFinish ==
    /\ pc = "hunkify"
    /\ position > Len(diff)
    /\ hunks' = IF current_hunk = None THEN hunks ELSE Append(hunks, current_hunk.val)
    /\ pc' = "hunk_returned"
    /\ UNCHANGED <<diff, extra_lines, position, left_line_number, right_line_number,
                   current_hunk, diff_crate, output, differ_vars, run_vars>>

NextHunk ==
    \/ HunkChange \/ HunkContextBefore \/ HunkContextAfter \/ HunkOutside
    \/ HunkFinish

SpecHunk == InitHunk /\ [][NextHunk]_vars

-----------------------------------------------------------------------------
(* hunkify_diff called directly on any diff, or by print_diff on the way   *)
(* from FileNodeDiff::print and from output_diff                           *)

\* The context print_diff is called with
PrintContext == 3

\* The texts compared on the printing paths: those of Texts, and two of
\* five lines that differ in the first line only
PrintTexts ==
    Texts \cup { <<97, 10, 98, 10, 99, 10, 100, 10, 101, 10>>,
                 <<120, 10, 98, 10, 99, 10, 100, 10, 101, 10>> }

\* hunkify_diff starts on the diff d with the context e
HunkifyFrom(d, e) ==
    /\ diff' = d
    /\ extra_lines' = e
    /\ position' = 1
    /\ left_line_number' = 1
    /\ right_line_number' = 1
    /\ current_hunk' = None
    /\ hunks' = <<>>
    /\ pc' = "hunkify"

InitPrint ==
    \/ InitHunk
    \/ /\ NoRun
       /\ NoHunks
       /\ diff_crate \in DiffCrates
       /\ output = None
       /\ actual_node \in {FileNode_load_from(UFile(d, 420)) : d \in PrintTexts}
       /\ expected_node \in {FileNode_load_from(UFile(d, 420)) : d \in PrintTexts}
       /\ node_diff = None
       /\ pc = "from_file_nodes"
    \/ /\ NoRun
       /\ NoHunks
       /\ NoDiffer
       /\ diff_crate \in DiffCrates
       /\ output \in {Some(Compare(a, e)) : a, e \in PrintTexts}
       /\ pc = "output_diff"

\* difference.rs lines 381-392, 170-171: FileNodeDiff::print hands the line
\* diff of a FileDiffers to print_diff, which calls hunkify_diff
PrintContents ==
    /\ pc = "differ_returned"
    /\ node_diff.val.tag = "FileDiffers"
    /\ node_diff.val.contents.some
    /\ node_diff.val.contents.val.tag = "Diff"
    /\ HunkifyFrom(node_diff.val.contents.val.diff, PrintContext)
    /\ UNCHANGED <<diff_crate, output, differ_vars, run_vars>>

\* OutputDiff without the assert! on the line diff
OutputDiffNoAssert ==
    /\ pc = "output_diff"
    /\ IF /\ output.val.tag = "Differs"
          /\ from_utf8_ok(output.val.left)
          /\ from_utf8_ok(output.val.right)
       THEN HunkifyFrom(diff_lines(output.val.left, output.val.right), PrintContext)
       ELSE /\ pc' = "printed"
            /\ UNCHANGED hunk_vars
    /\ UNCHANGED <<diff_crate, output, differ_vars, run_vars>>

\* results.rs output_diff: nothing for an Identical output, the advice for
\* outputs that do not decode, else the line diff, the assert! on it and
\* print_diff
OutputDiff ==
    /\ pc = "output_diff"
    /\ IF /\ output.val.tag = "Differs"
          /\ from_utf8_ok(output.val.left)
          /\ from_utf8_ok(output.val.right)
       THEN IF diff_nonempty(diff_lines(output.val.left, output.val.right))
            THEN HunkifyFrom(diff_lines(output.val.left, output.val.right), PrintContext)
            ELSE /\ pc' = "output_panicked"
                 /\ UNCHANGED hunk_vars
       ELSE /\ pc' = "printed"
            /\ UNCHANGED hunk_vars
    /\ UNCHANGED <<diff_crate, output, differ_vars, run_vars>>

\* difference.rs lines 171-173: print_diff takes the last of the hunks
\* hunkify_diff returned; expect("at least one hunk") panics when there is none
PopLastHunk ==
    /\ pc = "hunk_returned"
    /\ node_diff.some \/ output.some
    /\ pc' = IF hunks = <<>> THEN "print_panicked" ELSE "printed"
    /\ UNCHANGED <<diff_crate, output, differ_vars, run_vars, hunk_vars>>

NextPrint ==
    \/ DifferReturn \/ DifferPanic \/ PrintContents \/ OutputDiff
    \/ HunkChange \/ HunkContextBefore \/ HunkContextAfter \/ HunkOutside
    \/ HunkFinish \/ PopLastHunk

SpecPrint == InitPrint /\ [][NextPrint]_vars

-----------------------------------------------------------------------------
(* Properties                                                              *)

\* The events of one kind recorded for one test directory
EventsOf(op, d) == {i \in 1..Len(events) : events[i].op = op /\ events[i].test = d}

\* Whether the fixture of the current iteration is skipped as ignored
IgnoredNow == test.params.ignore = Some(TRUE) /\ ~opt.include_ignored

\* C1: RootTestResult::new returns Ok exactly when the four comparisons it
\* built are all Identical; otherwise it returns Failed carrying the four
\* comparisons as built, the Identical ones included; run() hands the same
\* verdict on, so a Failed with four Identical fields is never returned.
C1_UpgradeRule ==
    result.some =>
        LET all_identical ==
                /\ cmp.val.status.tag = "Identical"
                /\ cmp.val.stdout.tag = "Identical"
                /\ cmp.val.stderr.tag = "Identical"
                /\ cmp.val.root.tag = "Identical"
        IN  /\ (result.val.tag = "Ok") <=> all_identical
            /\ ~all_identical =>
                    /\ result.val.tag = "Failed"
                    /\ result.val.status = cmp.val.status
                    /\ result.val.stdout = cmp.val.stdout
                    /\ result.val.stderr = cmp.val.stderr
                    /\ result.val.root = cmp.val.root
            /\ (pc = "returned" /\ ret.val.ok) => ret.val.val = result.val

\* C1 witness: new returned Failed although two of its fields are Identical
C1_Witness ==
    /\ pc = "returned"
    /\ result.some
    /\ ret.val.ok
    /\ ret.val.val.tag = "Failed"
    /\ ret.val.val.stdout.tag = "Identical"
    /\ ret.val.val.status.tag = "Identical"
    /\ ret.val.val.root.tag = "Differs"

\* What a field of the verdict has to be for an actual and an expected value
FieldIs(field, actual, expected) ==
    /\ (actual = expected) => field = [tag |-> "Identical"]
    /\ (actual # expected) =>
            field = [tag |-> "Differs", left |-> actual, right |-> expected]

\* C2: in a Failed verdict returned by new, each of the four fields is
\* Identical exactly when its own actual value equals its expected value and
\* is Differs(actual, expected), in that order, otherwise: the status by the
\* exit code, stdout and stderr by their bytes, the root by the loaded trees.
C2_IndependentComparisons ==
    (pc = "cleanup" /\ result.val.tag = "Failed") =>
        /\ FieldIs(result.val.status, process_output.val.code.val,
                   disk[dir].params.expected_status)
        /\ FieldIs(result.val.stdout, process_output.val.stdout,
                   disk[dir].expected_stdout)
        /\ FieldIs(result.val.stderr, process_output.val.stderr,
                   disk[dir].expected_stderr)
        /\ FieldIs(result.val.root, FileNode_load_from(disk[dir].root),
                   FileNode_load_from(disk[dir].root_after))

\* C2 witness: the command exits with 3 where 0 is expected and everything
\* else matches
C2_Witness ==
    /\ pc = "cleanup"
    /\ result.val = [tag |-> "Failed",
                     status |-> [tag |-> "Differs", left |-> 3, right |-> 0],
                     stdout |-> [tag |-> "Identical"],
                     stderr |-> [tag |-> "Identical"],
                     root |-> [tag |-> "Identical"]]

\* C3: when the fixture's ignore flag is set and include_ignored is false,
\* run() returns Ignored in one step that changes nothing on disk and starts
\* nothing (no removal, copy, launch or load is recorded); otherwise run()
\* goes on to staging, never returns Ignored, and every verdict it returns
\* comes after the copy and the launch of that fixture.
C3_IgnoreGate ==
    /\ [][pc = "run" =>
            IF IgnoredNow
            THEN /\ pc' = "returned"
                 /\ ret' = Some(Ok(ResultIgnored))
                 /\ disk' = disk
                 /\ events' = events
            ELSE pc' = "clean_previous"]_vars
    /\ [](pc = "returned" =>
            IF IgnoredNow
            THEN /\ ret.val = Ok(ResultIgnored)
                 /\ \A i \in 1..Len(events) :
                        events[i].test = dir => events[i].op = "print_name"
            ELSE /\ ret.val # Ok(ResultIgnored)
                 /\ EventsOf("remove_dir_all", dir) # {}
                 /\ ret.val.ok =>
                        /\ ret.val.val.tag \in {"Ok", "Failed"}
                        /\ EventsOf("cp", dir) # {}
                        /\ EventsOf("launch", dir) # {})

\* C3 witness: an ignored fixture has returned and the leftovers of an
\* earlier run are still in place
C3_Witness ==
    /\ pc = "returned"
    /\ ret.val = Ok(ResultIgnored)
    /\ disk[dir].root.kind = "dir"
    /\ disk[dir].actual_stdout.kind = "file"
    /\ disk[dir].actual_stderr.kind = "file"

\* C4: with cleanup requested, once the working root has been staged it no
\* longer exists when run() returns, whether run() returns a verdict or an
\* error.
C4_CleanupOnEveryReturn ==
    (pc = "returned" /\ opt.cleanup /\ EventsOf("cp", dir) # {}) =>
        disk[dir].root.kind = "absent"

\* C5: whenever a fixture's command is launched, the working root is a fresh
\* copy of the before tree, whatever was at that path before the run.
C5_FreshRootAtLaunch ==
    \A i \in 1..Len(events) :
        events[i].op = "launch" =>
            events[i].root = CpR(disk[events[i].test].root_before)

\* C6: when cleanup is not requested and run() returns a verdict Ok or
\* Failed, the working root is on disk and actual.stdout / actual.stderr hold
\* the stdout / stderr bytes captured from the command of this run.
C6_NoCleanupKeeps ==
    (/\ pc = "returned"
     /\ ~opt.cleanup
     /\ ret.val.ok
     /\ ret.val.val.tag \in {"Ok", "Failed"}) =>
        /\ disk[dir].root.kind = "dir"
        /\ disk[dir].actual_stdout.kind = "file"
        /\ disk[dir].actual_stdout.data = process_output.val.stdout
        /\ disk[dir].actual_stderr.kind = "file"
        /\ disk[dir].actual_stderr.data = process_output.val.stderr

\* C6 witness: a run without cleanup ended Failed over stale leftovers that
\* could not be removed, and the command wrote to stdout
C6_Witness ==
    /\ pc = "returned"
    /\ ~opt.cleanup
    /\ ret.val.ok
    /\ ret.val.val.tag = "Failed"
    /\ "junk" \in DOMAIN disk[dir].root.entries
    /\ disk[dir].actual_stdout.data = <<97, 10>>
    /\ disk[dir].actual_stderr.data = <<>>

\* C7: every launch carries the fixture's working directory, its command
\* line and its environment variable mapping.
C7_LaunchCarriesFixture ==
    \A i \in 1..Len(events) :
        events[i].op = "launch" =>
            LET fixture == disk[events[i].test]
            IN  /\ events[i].command.args[5][2] = fixture.params.cd
                /\ events[i].command.args[5][4] = fixture.params.run
                /\ events[i].command.envs = fixture.environment

\* C8: once run() of a fixture has returned an error, the process ends with
\* the next step; no later fixture has been or is staged or executed, no
\* verdict is counted for the failing fixture, and neither the failure
\* details nor the summary are printed.
C8_FailFast ==
    /\ [][(pc = "returned" /\ ~ret.val.ok) =>
            /\ pc' = "exit"
            /\ exit_code' = Some(2)
            /\ counts' = counts
            /\ fails' = fails
            /\ disk' = disk]_vars
    /\ []((pc \in {"returned", "exit"} /\ ret.some /\ ~ret.val.ok) =>
            /\ \A i \in 1..Len(events) :
                /\ events[i].test <= idx
                /\ events[i].op \notin {"print_details", "print_summary"}
                /\ events[i].op = "count" => events[i].test < idx
            /\ counts.ok + counts.failed + counts.ignored = idx - 1)

\* C8 witness: the process ended on the error of a fixture that is not the
\* last one, after an earlier fixture failed
C8_Witness ==
    /\ pc = "exit"
    /\ ret.some
    /\ ~ret.val.ok
    /\ idx < Len(tests)
    /\ counts.failed > 0

\* C9: in a run in which no infrastructure error occurs, every fixture of the
\* input list gets exactly one verdict counted.
C9_EveryFixtureCounted ==
    (pc = "exit" /\ exit_code # Some(2)) =>
        \A d \in 1..Len(test_dirs) : Cardinality(EventsOf("count", d)) = 1

\* C10: the process ends with 0 when every verdict is Ok or Ignored, with 1
\* when a verdict is Failed, with 2 on an infrastructure error, and with no
\* other code.
C10_ExitCode ==
    pc = "exit" =>
        /\ exit_code \in {Some(0), Some(1), Some(2)}
        /\ exit_code = Some(0) => (counts.failed = 0 /\ idx = Len(tests) + 1)
        /\ exit_code = Some(1) => (counts.failed > 0 /\ idx = Len(tests) + 1)
        /\ exit_code = Some(2) => (Len(tests) < Len(test_dirs) \/ ~ret.val.ok)

\* The verdicts counted so far with a given tag
Counted(tag) ==
    {i \in 1..Len(events) : events[i].op = "count" /\ events[i].verdict = tag}

\* C11: at every moment the ok, failed and ignored counters equal the number
\* of Ok, Failed and Ignored verdicts processed so far, each verdict raises
\* exactly its own counter by one, and tests_passed() is true exactly when no
\* Failed verdict was processed.
C11_CountsMatchVerdicts ==
    /\ [](/\ counts.ok = Cardinality(Counted("Ok"))
          /\ counts.failed = Cardinality(Counted("Failed"))
          /\ counts.ignored = Cardinality(Counted("Ignored"))
          /\ tests_passed(counts) <=> Counted("Failed") = {})
    /\ [][(pc = "returned" /\ ret.val.ok) =>
            LET tag == ret.val.val.tag
            IN  /\ counts'.ok = counts.ok + (IF tag = "Ok" THEN 1 ELSE 0)
                /\ counts'.failed = counts.failed + (IF tag = "Failed" THEN 1 ELSE 0)
                /\ counts'.ignored = counts.ignored + (IF tag = "Ignored" THEN 1 ELSE 0)]_vars

\* C11 witness: a run ended after one Ok, one Failed and one Ignored verdict
C11_Witness ==
    /\ pc = "exit"
    /\ counts = [ok |-> 1, failed |-> 1, ignored |-> 1]
    /\ ~tests_passed(counts)

\* What staging and executing a fixture records
StagingOps == {"remove_dir_all", "remove_stdout", "remove_stderr", "cp", "cp_failed",
               "launch", "launch_failed"}

\* The test directories of the events of one kind, in the order of the events
RECURSIVE TestsOf(_, _)
TestsOf(op, evs) ==
    IF evs = <<>> THEN <<>>
    ELSE (IF Head(evs).op = op THEN <<Head(evs).test>> ELSE <<>>)
         \o TestsOf(op, Tail(evs))

\* The test directories of the Failed verdicts, in the order they were counted
RECURSIVE FailedOf(_)
FailedOf(evs) ==
    IF evs = <<>> THEN <<>>
    ELSE (IF Head(evs).op = "count" /\ Head(evs).verdict = "Failed"
          THEN <<Head(evs).test>> ELSE <<>>)
         \o FailedOf(Tail(evs))

\* C12: fixtures run one at a time in input order: nothing of fixture d + 1
\* is staged or launched before the verdict of fixture d is counted, the
\* verdicts are counted in input order, and the failure details are printed
\* for the failed fixtures in input order.
C12_InputOrder ==
    LET counted == {i \in 1..Len(events) : events[i].op = "count"}
        staged == {i \in 1..Len(events) : events[i].op \in StagingOps}
        detailed == {i \in 1..Len(events) : events[i].op = "print_details"}
    IN  /\ \A i \in staged :
            events[i].test > 1 =>
                \E j \in counted : j < i /\ events[j].test = events[i].test - 1
        /\ \A i, j \in counted : i < j => events[i].test < events[j].test
        /\ \A i, j \in detailed : i < j => events[i].test < events[j].test
        /\ pc = "exit" /\ exit_code \in {Some(0), Some(1)} =>
                TestsOf("print_details", events) = FailedOf(events)

\* C12 witness: the details of two failed fixtures were printed, and a
\* fixture was launched after an earlier one had been counted
C12_Witness ==
    /\ pc = "exit"
    /\ Len(TestsOf("print_details", events)) = 2
    /\ Len(TestsOf("launch", events)) = 3

\* The nesting depth of a loaded tree
RECURSIVE Depth(_)
Depth(node) ==
    IF node.type # "Directory" \/ DOMAIN node.children = {} THEN 0
    ELSE LET deepest == CHOOSE n \in DOMAIN node.children :
                            \A m \in DOMAIN node.children :
                                Depth(node.children[m]) <= Depth(node.children[n])
         IN  1 + Depth(node.children[deepest])

\* C13: from_file_nodes(s, s) returns Identical for every snapshot s, a file,
\* a directory or a symbolic link, nested or not.
C13_Identity ==
    (pc # "from_file_nodes" /\ actual_node = expected_node) =>
        /\ pc = "differ_returned"
        /\ node_diff = Some(FileNodeDiff_Identical)

\* C13 witness: a directory nested two levels deep was compared with itself
C13_Witness ==
    /\ pc = "differ_returned"
    /\ actual_node = expected_node
    /\ Depth(actual_node) >= 2
    /\ node_diff = Some(FileNodeDiff_Identical)

\* C14: from_file_nodes(a, b) is non-Identical exactly when
\* from_file_nodes(b, a) is non-Identical.
C14_Symmetry ==
    pc # "from_file_nodes" =>
        ((pc = "differ_returned" /\ node_diff.val = FileNodeDiff_Identical)
            <=> from_file_nodes(expected_node, actual_node) = FileNodeDiff_Identical)

\* C14 witness: a directory with a child the other side lacks was reported
\* as differing, and the call in the other direction differs as well
C14_Witness ==
    /\ pc = "differ_returned"
    /\ actual_node.type = "Directory"
    /\ expected_node.type = "Directory"
    /\ actual_node.permissions = expected_node.permissions
    /\ DOMAIN expected_node.children = {}
    /\ DOMAIN actual_node.children # {}
    /\ node_diff.val.tag = "DirectoryDiffers"
    /\ from_file_nodes(expected_node, actual_node).tag = "DirectoryDiffers"

\* The children mapping of a difference node (empty when it has none)
MapOf(d) ==
    IF d.tag = "DirectoryDiffers" /\ d.children.some THEN d.children.val ELSE <<>>

\* Sparsity of the difference tree d of the directories a and e, at every depth
RECURSIVE Sparse(_, _, _)
Sparse(d, a, e) ==
    d.tag = "DirectoryDiffers" =>
        LET common == DOMAIN a.children \cap DOMAIN e.children
        IN  /\ \A n \in DOMAIN MapOf(d) : MapOf(d)[n].tag # "Identical"
            /\ \A n \in common :
                n \in DOMAIN MapOf(d) <=>
                    from_file_nodes(a.children[n], e.children[n]).tag # "Identical"
            /\ \A n \in common \cap DOMAIN MapOf(d) :
                Sparse(MapOf(d)[n], a.children[n], e.children[n])

\* C15: in every difference tree from_file_nodes returns, at every depth,
\* the children mapping of a DirectoryDiffers node holds no Identical value,
\* and a name both directories have is in the mapping exactly when the diff
\* of the two children is not Identical.
C15_Sparsity ==
    pc = "differ_returned" => Sparse(node_diff.val, actual_node, expected_node)

\* C15 witness: a difference tree that leaves out an identical common child
\* at the top and holds a nested DirectoryDiffers that also leaves one out
C15_Witness ==
    /\ pc = "differ_returned"
    /\ node_diff.val.tag = "DirectoryDiffers"
    /\ DOMAIN actual_node.children = {"a", "b"}
    /\ DOMAIN expected_node.children = {"a", "b"}
    /\ DOMAIN MapOf(node_diff.val) = {"a"}
    /\ MapOf(node_diff.val)["a"].tag = "DirectoryDiffers"
    /\ "a" \in DOMAIN actual_node.children["a"].children
    /\ "a" \in DOMAIN expected_node.children["a"].children
    /\ ~("a" \in DOMAIN MapOf(MapOf(node_diff.val)["a"]))

\* The one-sided children of the directories a and e in their difference d
RECURSIVE OneSided(_, _, _)
OneSided(d, a, e) ==
    (a.type = "Directory" /\ e.type = "Directory") =>
        LET common == DOMAIN a.children \cap DOMAIN e.children
        IN  /\ \A n \in DOMAIN e.children \ DOMAIN a.children :
                /\ n \in DOMAIN MapOf(d)
                /\ MapOf(d)[n] = [tag |-> "Missing", type |-> node_type(e.children[n])]
            /\ \A n \in DOMAIN a.children \ DOMAIN e.children :
                /\ n \in DOMAIN MapOf(d)
                /\ MapOf(d)[n] = [tag |-> "Unexpected", type |-> node_type(a.children[n])]
            /\ \A n \in common \cap DOMAIN MapOf(d) :
                /\ MapOf(d)[n].tag \notin {"Missing", "Unexpected"}
                /\ OneSided(MapOf(d)[n], a.children[n], e.children[n])

\* C16: in the diff of two directories every name only the expected
\* directory has maps to Missing(kind of the expected node), every name only
\* the actual directory has maps to Unexpected(kind of the actual node), and
\* no name both have is reported as Missing or Unexpected.
C16_MissingUnexpected ==
    pc = "differ_returned" => OneSided(node_diff.val, actual_node, expected_node)

\* C16 witness: one name only expected, a symbolic link, and a directory
\* both sides have whose own diff holds an Unexpected file
C16_Witness ==
    /\ pc = "differ_returned"
    /\ actual_node.type = "Directory"
    /\ expected_node.type = "Directory"
    /\ DOMAIN actual_node.children = {"a"}
    /\ DOMAIN expected_node.children = {"a", "b"}
    /\ DOMAIN MapOf(node_diff.val) = {"a", "b"}
    /\ MapOf(node_diff.val)["b"] = [tag |-> "Missing", type |-> "symbolic link"]
    /\ \E n \in DOMAIN MapOf(MapOf(node_diff.val)["a"]) :
        MapOf(MapOf(node_diff.val)["a"])[n] = [tag |-> "Unexpected", type |-> "file"]

\* The difference of two nodes of different variants
Mismatch(a, e) ==
    [tag |-> "DifferentType", actual |-> node_type(a), expected |-> node_type(e)]

\* C17: when the actual and the expected node at a path are of different
\* variants the result is exactly DifferentType(actual kind, expected kind),
\* whatever the nodes hold: no children mapping, no content diff, no
\* permission diff, and no failing assertion.
C17_TypeMismatch ==
    /\ (pc # "from_file_nodes" /\ actual_node.type # expected_node.type) =>
        /\ pc = "differ_returned"
        /\ node_diff.val = Mismatch(actual_node, expected_node)
    /\ (pc = "differ_returned" /\ actual_node.type = "Directory"
            /\ expected_node.type = "Directory") =>
        \A n \in DOMAIN actual_node.children \cap DOMAIN expected_node.children :
            actual_node.children[n].type # expected_node.children[n].type =>
                /\ n \in DOMAIN MapOf(node_diff.val)
                /\ MapOf(node_diff.val)[n] =
                        Mismatch(actual_node.children[n], expected_node.children[n])

\* C17 witness: a directory with children was compared with a file of
\* another mode
C17_Witness ==
    /\ pc = "differ_returned"
    /\ actual_node.type = "Directory"
    /\ DOMAIN actual_node.children # {}
    /\ expected_node.type = "File"
    /\ expected_node.permissions.mode % 512 # actual_node.permissions.mode % 512
    /\ node_diff.val = [tag |-> "DifferentType", actual |-> "directory",
                        expected |-> "file"]

\* C19: two files whose bytes differ, one of them at least not UTF-8, give
\* FileDiffers with contents = Binary; two files with the same bytes never
\* give a content difference, UTF-8 or not.
C19_BinaryFallback ==
    (pc # "from_file_nodes" /\ actual_node.type = "File" /\ expected_node.type = "File") =>
        /\ (/\ actual_node.contents # expected_node.contents
            /\ ~(from_utf8_ok(actual_node.contents) /\ from_utf8_ok(expected_node.contents))) =>
                /\ pc = "differ_returned"
                /\ node_diff.val.tag = "FileDiffers"
                /\ node_diff.val.contents = Some([tag |-> "Binary"])
        /\ actual_node.contents = expected_node.contents =>
                /\ pc = "differ_returned"
                /\ \/ node_diff.val.tag = "Identical"
                   \/ /\ node_diff.val.tag = "FileDiffers"
                      /\ node_diff.val.contents = None

\* C19 witness: a file that is not UTF-8 was compared with a text file
C19_Witness ==
    /\ pc = "differ_returned"
    /\ actual_node.type = "File"
    /\ expected_node.type = "File"
    /\ actual_node.contents = <<255, 10>>
    /\ expected_node.contents = <<97, 10>>
    /\ node_diff.val.contents = Some([tag |-> "Binary"])

\* C18: for two files whose bytes differ and that both decode as UTF-8 the
\* line diff holds at least one left-only or right-only line, so the
\* assertion on it holds and from_file_nodes returns that diff; this
\* includes pairs that differ only in their line endings.
C18_LineDiffNonEmpty ==
    (/\ pc # "from_file_nodes"
     /\ actual_node.type = "File"
     /\ expected_node.type = "File"
     /\ actual_node.contents # expected_node.contents
     /\ from_utf8_ok(actual_node.contents)
     /\ from_utf8_ok(expected_node.contents)) =>
        /\ pc = "differ_returned"
        /\ node_diff.val.tag = "FileDiffers"
        /\ node_diff.val.contents.some
        /\ node_diff.val.contents.val.tag = "Diff"
        /\ \E i \in 1..Len(node_diff.val.contents.val.diff) :
            node_diff.val.contents.val.diff[i].tag \in {"Left", "Right"}

\* The places of the returned hunks that hold the item d
PlacesOf(d) ==
    { <<h, k>> \in (1..Len(hunks)) \X (1..MaxDiffLen) :
        k <= Len(hunks[h][3]) /\ hunks[h][3][k] = d }

\* C20: for every context width, 0 included, each left-only or right-only
\* item of the line diff is in exactly one returned hunk, exactly once.
C20_HunkCoverage ==
    pc = "hunk_returned" =>
        \A i \in 1..Len(diff) :
            is_different(diff[i]) => Cardinality(PlacesOf(diff[i])) = 1

\* C20 witness: with no context, a diff whose changes are split by common
\* lines came back as three hunks, one of them of two changes
C20_Witness ==
    /\ pc = "hunk_returned"
    /\ extra_lines = 0
    /\ Len(hunks) = 3
    /\ \E h \in 1..Len(hunks) : Len(hunks[h][3]) = 2
    /\ \E i \in 1..Len(diff) : diff[i].tag = "Left"
    /\ \E i \in 1..Len(diff) : diff[i].tag = "Right"

\* The position in the input of an item of SpecHunk's diffs
Pos(d) == IF d.tag = "Right" THEN d.r[1] ELSE d.l[1]

\* The returned hunk h holds the item d
InHunk(h, d) == \E k \in 1..Len(hunks[h][3]) : hunks[h][3][k] = d

\* The changes of the input diff
Changes == {i \in 1..Len(diff) : diff[i].tag \in {"Left", "Right"}}

\* C21: for every context width, two changes with nothing but fewer than
\* 2 * context + 1 unchanged items between them are in the same returned hunk.
C21_HunkMerging ==
    pc = "hunk_returned" =>
        \A i, j \in Changes :
            (/\ i < j
             /\ \A k \in (i + 1)..(j - 1) : diff[k].tag = "Both"
             /\ j - i - 1 < 2 * extra_lines + 1) =>
                \E h \in 1..Len(hunks) : InHunk(h, diff[i]) /\ InHunk(h, diff[j])

\* C21 witness: with two lines of context, two changes four unchanged items
\* apart came back in one hunk
C21_Witness ==
    /\ pc = "hunk_returned"
    /\ extra_lines = 2
    /\ Changes = {1, 6}
    /\ Len(hunks) = 1
    /\ Len(hunks[1][3]) = 6

\* C22: an unchanged item at position p is in a returned hunk exactly when
\* a change lies at a position of [p - context, p + context].
C22_BoundedContext ==
    pc = "hunk_returned" =>
        \A p \in 1..Len(diff) :
            diff[p].tag = "Both" =>
                ((\E h \in 1..Len(hunks) : InHunk(h, diff[p]))
                    <=> \E q \in Changes : p - extra_lines <= q /\ q <= p + extra_lines)

\* C22 witness: with one line of context, foo / bar, BAR / baz / qux / quux
\* came back as one hunk of foo, bar, BAR and baz
C22_Witness ==
    /\ pc = "hunk_returned"
    /\ extra_lines = 1
    /\ Len(diff) = 6
    /\ Changes = {2, 3}
    /\ diff[2].tag # diff[3].tag
    /\ Len(hunks) = 1
    /\ hunks[1][3] = SubSeq(diff, 1, 4)

\* The items before position f that count as lines of one side
LinesBefore(f, side) == {k \in 1..(f - 1) : diff[k].tag \in {side, "Both"}}

\* C23: the start_left of every returned hunk is 1 plus the number of
\* left-only and unchanged items before the hunk's first item, its
\* start_right 1 plus the number of right-only and unchanged items before it.
C23_HunkStarts ==
    pc = "hunk_returned" =>
        \A h \in 1..Len(hunks) :
            /\ hunks[h][3] # <<>>
            /\ hunks[h][1] = 1 + Cardinality(LinesBefore(Pos(hunks[h][3][1]), "Left"))
            /\ hunks[h][2] = 1 + Cardinality(LinesBefore(Pos(hunks[h][3][1]), "Right"))

\* C23 witness: a second hunk that starts at different left and right lines
C23_Witness ==
    /\ pc = "hunk_returned"
    /\ Len(hunks) = 2
    /\ hunks[2][1] = 3
    /\ hunks[2][2] = 5

\* The first and the last input position of the returned hunk h
FirstPos(h) == Pos(hunks[h][3][1])
LastPos(h) == Pos(hunks[h][3][Len(hunks[h][3])])

\* The items of the returned hunk h that print_hunk numbers on one side
SideOf(h, side) == {k \in 1..Len(hunks[h][3]) : hunks[h][3][k].tag \in {side, "Both"}}

\* print_diff's bound on the line numbers: max(last_hunk.0, last_hunk.1) + last_hunk.2.len()
MaxPossibleLine ==
    LET last_hunk == hunks[Len(hunks)]
    IN  (IF last_hunk[1] >= last_hunk[2] THEN last_hunk[1] ELSE last_hunk[2])
        + Len(last_hunk[3])

\* C24: every returned hunk is a contiguous run of the input; each hunk
\* lies after the one before it with at least one omitted unchanged item
\* between them; start_left and start_right do not decrease along the list,
\* so no line number of any hunk is above the bound print_diff takes from
\* the last hunk.
C24_HunkOrder ==
    pc = "hunk_returned" =>
        /\ \A h \in 1..Len(hunks) :
            /\ hunks[h][3] # <<>>
            /\ hunks[h][3] = SubSeq(diff, FirstPos(h), LastPos(h))
            /\ hunks[h][1] + Cardinality(SideOf(h, "Left")) - 1 <= MaxPossibleLine
            /\ hunks[h][2] + Cardinality(SideOf(h, "Right")) - 1 <= MaxPossibleLine
        /\ \A h \in 1..(Len(hunks) - 1) :
            /\ LastPos(h) + 1 < FirstPos(h + 1)
            /\ \A k \in (LastPos(h) + 1)..(FirstPos(h + 1) - 1) : diff[k].tag = "Both"
            /\ hunks[h][1] <= hunks[h + 1][1]
            /\ hunks[h][2] <= hunks[h + 1][2]

\* C24 witness: with one line of context, two hunks came back, the second
\* after two omitted unchanged items
C24_Witness ==
    /\ pc = "hunk_returned"
    /\ extra_lines = 1
    /\ Len(hunks) = 2
    /\ FirstPos(2) = LastPos(1) + 3

\* The changes at most extra_lines items behind the current position
ChangesBehind == {q \in Changes : position - extra_lines <= q /\ q < position}

\* The changes from the current position to extra_lines items ahead of it
ChangesAhead == {q \in Changes : position <= q /\ q <= position + extra_lines}

\* C28: whenever the loop is at an unchanged item with no change in its
\* forward window and one in its backward window, a hunk is open, so the
\* unwrap of the trailing-context branch does not fail; no hunk is closed
\* while a change lies within extra_lines items behind the position; and
\* the one open hunk is the run of items that ends before the position,
\* after every closed hunk.
C28_OpenHunk ==
    /\ pc # "hunk_panicked"
    /\ (/\ pc = "hunkify"
        /\ position <= Len(diff)
        /\ diff[position].tag = "Both"
        /\ ChangesAhead = {}
        /\ ChangesBehind # {}) => current_hunk.some
    /\ (pc = "hunkify" /\ ~current_hunk.some) => ChangesBehind = {}
    /\ (pc = "hunkify" /\ current_hunk.some) =>
        LET open == current_hunk.val[3]
        IN  /\ open # <<>>
            /\ open = SubSeq(diff, position - Len(open), position - 1)
            /\ \A h \in 1..Len(hunks) : LastPos(h) < position - Len(open)

\* C28 witness: the loop is at an unchanged item after a change, with no
\* change ahead, and the hunk of that change is open behind a closed one
C28_Witness ==
    /\ pc = "hunkify"
    /\ position <= Len(diff)
    /\ diff[position].tag = "Both"
    /\ ChangesAhead = {}
    /\ ChangesBehind # {}
    /\ extra_lines = 1
    /\ current_hunk.some
    /\ Len(hunks) = 1

\* A PermissionsDiff p of the permissions a and e names the fields that differ
PermissionsNamed(p, a, e) ==
    /\ p.mode = (IF a.mode = e.mode THEN [tag |-> "Identical"]
                 ELSE [tag |-> "Differs", left |-> a.mode, right |-> e.mode])
    /\ p.uid = (IF a.uid = e.uid THEN [tag |-> "Identical"]
                ELSE [tag |-> "Differs", left |-> a.uid, right |-> e.uid])
    /\ p.gid = (IF a.gid = e.gid THEN [tag |-> "Identical"]
                ELSE [tag |-> "Differs", left |-> a.gid, right |-> e.gid])
    /\ "Differs" \in {p.mode.tag, p.uid.tag, p.gid.tag}

\* The difference tree d of the nodes a and e is well formed at every depth
RECURSIVE WellFormed(_, _, _)
WellFormed(d, a, e) ==
    d.tag \in {"FileDiffers", "DirectoryDiffers", "SymbolicLinkDiffers"} =>
        /\ d.permissions.some =>
                PermissionsNamed(d.permissions.val, a.permissions, e.permissions)
        /\ d.tag = "FileDiffers" => (d.contents.some \/ d.permissions.some)
        /\ d.tag = "SymbolicLinkDiffers" => (d.target.some \/ d.permissions.some)
        /\ d.tag = "DirectoryDiffers" =>
            /\ d.children.some \/ d.permissions.some
            /\ d.children.some => DOMAIN d.children.val # {}
            /\ \A n \in DOMAIN MapOf(d) \cap DOMAIN a.children \cap DOMAIN e.children :
                WellFormed(MapOf(d)[n], a.children[n], e.children[n])

\* C25: every FileDiffers, DirectoryDiffers and SymbolicLinkDiffers node
\* from_file_nodes returns has one of its two optional parts at least; a
\* present children mapping is not empty; a present permissions difference
\* has mode, uid or gid equal to Differs, each of the three being Differs
\* exactly when that field differs between actual and expected.
C25_WellFormedNodes ==
    pc = "differ_returned" => WellFormed(node_diff.val, actual_node, expected_node)

\* C25 witness: a directory whose only difference is a symbolic link of
\* another owner: children without permissions above, permissions without
\* target below, with mode Identical and uid Differs
C25_Witness ==
    /\ pc = "differ_returned"
    /\ node_diff.val.tag = "DirectoryDiffers"
    /\ ~node_diff.val.permissions.some
    /\ DOMAIN MapOf(node_diff.val) = {"a"}
    /\ MapOf(node_diff.val)["a"].tag = "SymbolicLinkDiffers"
    /\ ~MapOf(node_diff.val)["a"].target.some
    /\ MapOf(node_diff.val)["a"].permissions.val.mode.tag = "Identical"
    /\ MapOf(node_diff.val)["a"].permissions.val.uid.tag = "Differs"

\* C26: two loaded snapshots are equal exactly when from_file_nodes returns
\* Identical for them; so for a root that Differs the difference tree is not
\* Identical and printing it does not reach the "printing identical node"
\* branch, in the tree's root or in a child.
C26_EqualityAgrees ==
    pc # "from_file_nodes" =>
        /\ actual_node = expected_node <=>
                (pc = "differ_returned" /\ node_diff.val.tag = "Identical")
        /\ (pc = "differ_returned" /\ Compare(actual_node, expected_node).tag = "Differs") =>
                ~print_reaches_identical(node_diff.val)

\* C26 witness: two directories that differ two levels down and share an
\* equal child gave a tree that is printed through its children
C26_Witness ==
    /\ pc = "differ_returned"
    /\ actual_node # expected_node
    /\ Depth(actual_node) >= 2
    /\ Depth(expected_node) >= 2
    /\ DOMAIN actual_node.children = {"a", "b"}
    /\ DOMAIN expected_node.children = {"a", "b"}
    /\ actual_node.children["b"] = expected_node.children["b"]
    /\ node_diff.val.tag = "DirectoryDiffers"
    /\ DOMAIN MapOf(node_diff.val) = {"a"}
    /\ MapOf(node_diff.val)["a"].tag = "DirectoryDiffers"
    /\ ~print_reaches_identical(node_diff.val)

\* hunkify_diff was called by print_diff
FromPrintDiff == node_diff.some \/ output.some

\* C27: hunkify_diff returns at least one hunk exactly when its diff holds
\* a change; print_diff is only called, from FileNodeDiff::print and from
\* output_diff, with a diff that holds a change, so its "at least one hunk"
\* expectation does not fail.
C27_AtLeastOneHunk ==
    /\ pc \in {"hunk_returned", "printed", "print_panicked"} =>
            (hunks # <<>> <=> Changes # {})
    /\ (FromPrintDiff /\ pc \in {"hunkify", "hunk_returned"}) => Changes # {}
    /\ pc # "print_panicked"

\* C27 witness: print_diff took the last hunk of the diff of two texts of
\* five lines
C27_Witness ==
    /\ pc = "printed"
    /\ FromPrintDiff
    /\ Len(diff) >= 5
    /\ Changes # {}
    /\ Len(hunks) >= 1
    /\ extra_lines = PrintContext

====
